---- MODULE Spec2Model ----
(***************************************************************************)
(* Verification model of the Myelin flow transformers of                   *)
(* sling/myelin/kernel/arithmetic.cc: the expression fusion core           *)
(* (ExpressionTransformer), RemoveUnusedInputs, DivTransformer,            *)
(* AddNegToSubTransformer and LogicTransformer, run by the transformer     *)
(* pipeline over small flows, and the adjustment of the compiled steps by   *)
(* the Calculate kernel.  Further specifications model the layout of the   *)
(* instance block of a cell (PlanSpec), the record files of                *)
(* sling/file/recordio.cc (ReaderSpec, WriterSpec, IndexSpec, FindSpec)    *)
(* and the phrase cache of sling/nlp/ner/phrases.cc (PhraseSpec).  Each    *)
(* specification moves its own variables and leaves the others idle.       *)
(***************************************************************************)
EXTENDS Integers, Sequences, FiniteSets, TLC

VARIABLES
  flow,      \* the flow graph: [ops: sequence of operations, vars: id -> variable]
  flow0,     \* the flow as it was given to the compiler
  settled,   \* the flow the first run of the pipeline ended with
  pc,        \* position of the pipeline: which loop of which transformer runs
  cur,       \* loop state of the running transformer
  changed,   \* did a transformer of the current pass report a change
  run,       \* 1: first run of the pipeline, 2: run on its own result
  last,      \* record describing the step just taken
  cmp,       \* a comparison, its operands and its folded form
  cell,      \* the cell whose instance block is laid out
  recReader, \* a RecordReader with its file and input buffer
  recWriter, \* a RecordWriter with its file and output buffer
  recIndex,  \* a RecordIndex with its page cache
  finder,    \* an index page, a fingerprint and the search for it
  phrases,   \* the phrase cache of the annotator and its mutex
  threads    \* the annotator threads: the call each is in and where

vars == <<flow, flow0, settled, pc, cur, changed, run, last, cmp,
          cell, recReader, recWriter, recIndex, finder, phrases, threads>>

\* The variables of the transformer pipeline, and the others.
pipeline == <<flow, flow0, settled, pc, cur, changed, run, last, cmp>>
outside == <<cell, recReader, recWriter, recIndex, finder, phrases, threads>>

\* The value of a variable that the specification at hand does not use.
Idle == <<>>

(***************************************************************************)
(* Small helpers.                                                          *)
(***************************************************************************)
MinOf(S) == CHOOSE x \in S : \A y \in S : x <= y
MaxOf(S) == CHOOSE x \in S : \A y \in S : x >= y

Range(s) == {s[i] : i \in 1..Len(s)}

\* The element of a one-element set.  In The({F(x) : x \in {e}}) the value
\* of e is computed once, before F is applied to it.
The(S) == CHOOSE x \in S : TRUE

\* A sequence and a function given by a rule, as the explicit list and table
\* of their elements.
List(s) == s \o <<>>
Table(f) == f @@ <<>>

\* Index (1-based) of the first occurrence of x in s, or 0.
IndexOf(s, x) ==
  LET I == {i \in 1..Len(s) : s[i] = x}
  IN IF I = {} THEN 0 ELSE MinOf(I)

\* s without its element at position k.
RemoveAt(s, k) == List([i \in 1..(Len(s) - 1) |-> IF i < k THEN s[i] ELSE s[i + 1]])

\* s without the first occurrence of x.
RemoveFirst(s, x) == IF IndexOf(s, x) = 0 THEN s ELSE RemoveAt(s, IndexOf(s, x))

Swap(s, i, j) == [s EXCEPT ![i] = s[j], ![j] = s[i]]

Count(s, x) == Cardinality({i \in 1..Len(s) : s[i] = x})

(***************************************************************************)
(* Expression IR (Express).  An expression is a table of variable objects  *)
(* and a list of operations that refer to the objects by table index, so   *)
(* that changing the type or id of an object changes every reference to    *)
(* it, as with the Express::Var pointers of the source.                    *)
(***************************************************************************)
EVar(t, id) == [type |-> t, id |-> id]

EmptyExpr == [vars |-> <<>>, ops |-> <<>>]

\* Express::Lookup: index of the variable object with this type and id, 0
\* (nullptr) when there is none.
Lookup(e, t, id) == IndexOf(e.vars, EVar(t, id))

\* Express::Variable: the existing object, or a new one appended.  An id of
\* -1 always makes a new object.
VariableIdx(e, t, id) ==
  IF id # -1 /\ Lookup(e, t, id) # 0 THEN Lookup(e, t, id) ELSE Len(e.vars) + 1

VariableExpr(e, t, id) ==
  IF id # -1 /\ Lookup(e, t, id) # 0 THEN e
  ELSE [e EXCEPT !.vars = Append(e.vars, EVar(t, id))]

\* Number of uses of variable object i as an argument (Var::usages).
EUsages(e, i) ==
  Cardinality(UNION {{<<k, j>> : j \in {a \in 1..Len(e.ops[k].args) : e.ops[k].args[a] = i}} :
                       k \in 1..Len(e.ops)})

\* Express::CompactTempVars: number the temporaries 0, 1, ... in table order.
CompactTempVars(e) ==
  [e EXCEPT !.vars =
     List([i \in 1..Len(e.vars) |->
        IF e.vars[i].type = "TEMP"
        THEN EVar("TEMP", Cardinality({j \in 1..(i - 1) : e.vars[j].type = "TEMP"}))
        ELSE e.vars[i]])]

\* Express::Parse of a recipe.  A recipe is the textual form: a list of
\* assignments whose variables are written by type and id (%1, #0, @0, $2),
\* so two references with the same type and id are the same variable.
RECURSIVE ParseVars(_, _, _)
ParseVars(e, vs, k) ==
  IF k > Len(vs) THEN e
  ELSE The({ParseVars(e1, vs, k + 1) : e1 \in {VariableExpr(e, vs[k].type, vs[k].id)}})

RECURSIVE ParseOps(_, _, _)
ParseOps(e, recipe, k) ==
  IF k > Len(recipe) THEN e
  ELSE LET r  == recipe[k]
           e1 == ParseVars(e, r.args \o <<r.result>>, 1)
           op == [type   |-> r.type,
                  result |-> Lookup(e1, r.result.type, r.result.id),
                  args   |-> List([j \in 1..Len(r.args) |->
                                Lookup(e1, r.args[j].type, r.args[j].id)])]
       IN The({ParseOps(e2, recipe, k + 1) : e2 \in {[e1 EXCEPT !.ops = Append(e1.ops, op)]}})

Parse(recipe) == ParseOps(EmptyExpr, recipe, 1)

\* Express::AsRecipe: the operations written with the type and id of their
\* variables; variables that no operation uses are not written.
AsRecipe(e) ==
  List([k \in 1..Len(e.ops) |->
     [type   |-> e.ops[k].type,
      result |-> e.vars[e.ops[k].result],
      args   |-> List([j \in 1..Len(e.ops[k].args) |-> e.vars[e.ops[k].args[j]]])]])

(***************************************************************************)
(* Flow graph.  A variable is [type, shape, data, out]: element type,      *)
(* dimensions, the address of its constant data in the memory of the flow  *)
(* (0, nullptr, when the variable is no constant) and the output flag.     *)
(* The memory of the flow, mem, is the list of its buffers; a buffer holds *)
(* a rational <<num, den>>.  An operation is                               *)
(* [id, type, inputs, outputs, expr, strict, nomerge].  Producers and      *)
(* consumer lists are kept by the source as back pointers of the same      *)
(* edges; here they are read off the edges.                                *)
(***************************************************************************)
OpIds(f) == {f.ops[i].id : i \in 1..Len(f.ops)}

OpPos(f, o) == MinOf({i \in 1..Len(f.ops) : f.ops[i].id = o})

GetOp(f, o) == f.ops[OpPos(f, o)]

IsInput(op, v) == \E i \in 1..Len(op.inputs) : op.inputs[i] = v
IsOutput(op, v) == \E i \in 1..Len(op.outputs) : op.outputs[i] = v

\* Variable::producer, 0 for nullptr.
Producer(f, v) ==
  LET P == {f.ops[i].id : i \in {j \in 1..Len(f.ops) : IsOutput(f.ops[j], v)}}
  IN IF P = {} THEN 0 ELSE MinOf(P)

\* Variable::consumers: one entry per input edge.
RECURSIVE ConsumersFrom(_, _, _)
ConsumersFrom(f, v, k) ==
  IF k > Len(f.ops) THEN <<>>
  ELSE List([j \in 1..Count(f.ops[k].inputs, v) |-> f.ops[k].id]) \o ConsumersFrom(f, v, k + 1)

Consumers(f, v) == ConsumersFrom(f, v, 1)

Usages(f, v) == Len(Consumers(f, v))

IsConstant(var) == var.data # 0

\* The value a constant holds: the content of the buffer at var->data.
GetData(f, var) == f.mem[var.data]

Rank(var) == Len(var.shape)

RECURSIVE Product(_, _)
Product(shape, k) == IF k > Len(shape) THEN 1 ELSE shape[k] * Product(shape, k + 1)

Elements(var) == Product(var.shape, 1)

\* Shape::IsCompatible: the trailing dimensions agree or one of them is 1.
IsCompatible(s1, s2) ==
  \A d \in 0..(MinOf({Len(s1), Len(s2)}) - 1) :
     LET a == s1[Len(s1) - d]
         b == s2[Len(s2) - d]
     IN a = 1 \/ b = 1 \/ a = b

\* Variable::DependsOn: op is among the transitive producers of v.
RECURSIVE ProducerClosure(_, _, _)
ProducerClosure(f, seen, n) ==
  LET more == {Producer(f, u) : u \in UNION {Range(GetOp(f, o).inputs) : o \in seen}} \ {0}
  IN IF n = 0 \/ more \subseteq seen THEN seen
     ELSE ProducerClosure(f, seen \cup more, n - 1)

DependsOn(f, v, o) ==
  /\ Producer(f, v) # 0
  /\ o \in ProducerClosure(f, {Producer(f, v)}, Len(f.ops))

\* Operation::GetPrototype: the biggest output, or the biggest input when
\* there is no output or the biggest output is a scalar.
RECURSIVE Biggest(_, _, _, _)
Biggest(f, vs, k, best) ==
  IF k > Len(vs) THEN best
  ELSE Biggest(f, vs, k + 1,
               IF best = 0 \/ Elements(f.vars[vs[k]]) > Elements(f.vars[best])
               THEN vs[k] ELSE best)

GetPrototype(f, op) ==
  LET p == Biggest(f, op.outputs, 1, 0)
  IN IF p = 0 \/ Rank(f.vars[p]) = 0 THEN Biggest(f, op.inputs, 1, p) ELSE p

(***************************************************************************)
(* Mapping of flow operations to expressions.                              *)
(***************************************************************************)
\* OpType: the expression op of a flow operation type, "INVALID" when the
\* type cannot be part of a Calculate op.
OpTypeTable ==
  [Add |-> "ADD", Sub |-> "SUB", Mul |-> "MUL", Div |-> "DIV",
   RealDiv |-> "DIV", Minimum |-> "MINIMUM", Maximum |-> "MAXIMUM",
   Log |-> "LOG", Exp |-> "EXP", Sigmoid |-> "SIGMOID", Erf |-> "ERF",
   Sin |-> "SIN", Cos |-> "COS", Tan |-> "TAN", Cot |-> "COT", Sec |-> "SEC",
   Csc |-> "CSC",
   Asin |-> "ASIN", Acos |-> "ACOS", Atan |-> "ATAN", Acot |-> "ACOT",
   Asec |-> "ASEC", Acsc |-> "ACSC",
   Sinh |-> "SINH", Cosh |-> "COSH", Tanh |-> "TANH", Coth |-> "COTH",
   Sech |-> "SECH", Csch |-> "CSCH",
   Asinh |-> "ASINH", Acosh |-> "ACOSH", Atanh |-> "ATANH", Acoth |-> "ACOTH",
   Asech |-> "ASECH", Acsch |-> "ACSCH",
   Neg |-> "NEG", Abs |-> "ABS", Sign |-> "SIGN", Relu |-> "RELU",
   Softsign |-> "SOFTSIGN", Softplus |-> "SOFTPLUS",
   LogSigmoid |-> "LOGSIGMOID", Reciprocal |-> "RECIPROCAL",
   Square |-> "SQUARE", Sqrt |-> "SQRT", Rsqrt |-> "RSQRT",
   Equal |-> "CMPEQOQ", NotEqual |-> "CMPNEUQ", Less |-> "CMPLTOQ",
   LessEqual |-> "CMPLEOQ", Greater |-> "CMPGTOQ", GreaterEqual |-> "CMPGEOQ",
   Cond |-> "COND", Select |-> "SELECT",
   And |-> "AND", Or |-> "OR", Xor |-> "XOR", AndNot |-> "ANDNOT",
   Not |-> "NOT",
   Sum |-> "SUM", Product |-> "PRODUCT", Min |-> "MIN", Max |-> "MAX",
   All |-> "ALL", Any |-> "ANY", Count |-> "COUNT",
   Identity |-> "MOV"]

OpType(type) == IF type \in DOMAIN OpTypeTable THEN OpTypeTable[type] ELSE "INVALID"

IsCalculateOp(op) == op.type = "Calculate" \/ OpType(op.type) # "INVALID"

IsAssignmentOp(op) == op.type = "Assign"

\* Express::Op::reduction.
Reduction(type) == type \in {"SUM", "PRODUCT", "MIN", "MAX", "ALL", "ANY", "COUNT"}

\* The recipe "@0=Id(%1)" of an Assign without expr attribute.
AssignRecipe ==
  << [type |-> "MOV", result |-> EVar("OUTPUT", 0), args |-> <<EVar("INPUT", 1)>>] >>

\* The system constant a float value is replaced by, -1 when it is none.
\* (ZERO, ONE, HALF, TWO, N1 of Express.)
ConstId(data) ==
  IF data = <<0, 1>> THEN 0
  ELSE IF data = <<1, 1>> THEN 1
  ELSE IF data = <<1, 2>> THEN 2
  ELSE IF data = <<2, 1>> THEN 3
  ELSE IF data = <<-1, 1>> THEN 4
  ELSE -1

\* InitExpression, second half: mark constant and scalar inputs.
RECURSIVE MarkInputs(_, _, _, _)
MarkInputs(f, op, e, i) ==
  IF i >= Len(op.inputs) THEN e
  ELSE LET input == f.vars[op.inputs[i + 1]]
       IN IF Elements(input) # 1 THEN MarkInputs(f, op, e, i + 1)
          ELSE LET const_id == IF IsConstant(input) /\ input.type \in {"float", "double"}
                               THEN ConstId(GetData(f, input)) ELSE -1
                   var      == VariableIdx(e, "INPUT", i)
                   e1       == VariableExpr(e, "INPUT", i)
                   e2       == IF const_id # -1
                               THEN [e1 EXCEPT !.vars[var] = EVar("NUMBER", const_id)]
                               ELSE IF IsConstant(input)
                               THEN [e1 EXCEPT !.vars[var] = EVar("CONST", i)]
                               ELSE e1
               IN The({MarkInputs(f, op, e3, i + 1) : e3 \in {e2}})

\* InitExpression(Flow::Operation *, Express *).
InitExpression(f, op) ==
  LET e == IF op.type = "Calculate"
           THEN (IF op.expr = <<>> THEN EmptyExpr ELSE Parse(op.expr))
           ELSE IF op.type = "Assign"
           THEN Parse(IF op.expr = <<>> THEN AssignRecipe ELSE op.expr)
           ELSE CompactTempVars(
                  [vars |-> List([i \in 1..Len(op.inputs) |-> EVar("INPUT", i - 1)])
                            \o <<EVar("OUTPUT", 0)>>,
                   ops  |-> << [type   |-> OpType(op.type),
                                result |-> Len(op.inputs) + 1,
                                args   |-> List([i \in 1..Len(op.inputs) |-> i])] >>])
  IN MarkInputs(f, op, e, 0)

\* ExpressionTransformer::InputType.
InputType(var) ==
  IF IsConstant(var) /\ Elements(var) = 1 THEN "CONST" ELSE "INPUT"

\* ExpressionTransformer::MapVars: the expression with the variables of the
\* op's inputs and outputs, and the map from flow variable to table index.
RECURSIVE MapInputs(_, _, _, _)
MapInputs(f, op, st, i) ==
  IF i >= Len(op.inputs) THEN st
  ELSE LET v == op.inputs[i + 1]
           t == InputType(f.vars[v])
       IN The({MapInputs(f, op, st1, i + 1) :
                 st1 \in {[e |-> VariableExpr(st.e, t, i),
                           m |-> (v :> VariableIdx(st.e, t, i)) @@ st.m]}})

RECURSIVE MapOutputs(_, _, _)
MapOutputs(op, st, i) ==
  IF i >= Len(op.outputs) THEN st
  ELSE LET v == op.outputs[i + 1]
       IN The({MapOutputs(op, st1, i + 1) :
                 st1 \in {[e |-> VariableExpr(st.e, "OUTPUT", i),
                           m |-> (v :> VariableIdx(st.e, "OUTPUT", i)) @@ st.m]}})

MapVars(f, op, e) ==
  The({MapOutputs(op, st, 0) : st \in {MapInputs(f, op, [e |-> e, m |-> <<>>], 0)}})

(***************************************************************************)
(* Express::Merge and Express::EliminateRedundantMoves.                    *)
(***************************************************************************)
\* Merge: the unmapped variables of the other expression are moved into
\* this one, its operations are appended with mapped results and arguments,
\* and the temporaries are renumbered when one was moved.
Merge(e1, e2, mapping) ==
  LET unmapped == {i \in 1..Len(e2.vars) : i \notin DOMAIN mapping}
      newidx(i) == IF i \in DOMAIN mapping THEN mapping[i]
                   ELSE Len(e1.vars) + Cardinality({j \in unmapped : j <= i})
      moved == List([k \in 1..Cardinality(unmapped) |->
                  e2.vars[CHOOSE i \in unmapped :
                            Cardinality({j \in unmapped : j <= i}) = k]])
      ops2 == List([k \in 1..Len(e2.ops) |->
                 [type   |-> e2.ops[k].type,
                  result |-> newidx(e2.ops[k].result),
                  args   |-> List([j \in 1..Len(e2.ops[k].args) |-> newidx(e2.ops[k].args[j])])]])
      merged == [vars |-> e1.vars \o moved, ops |-> e1.ops \o ops2]
      temps_moved == \E i \in unmapped : e2.vars[i].type = "TEMP"
  IN IF temps_moved THEN CompactTempVars(merged) ELSE merged

\* Position of the operation that assigns variable object i, 0 when none.
EProducer(e, i) ==
  LET P == {k \in 1..Len(e.ops) : e.ops[k].result = i}
  IN IF P = {} THEN 0 ELSE MaxOf(P)

\* A move whose source is a temporary that is used by this move only and
\* has a producer is redundant: the producer assigns the target directly.
RedundantMoves(e) ==
  {k \in 1..Len(e.ops) :
     /\ e.ops[k].type = "MOV"
     /\ Len(e.ops[k].args) = 1
     /\ e.vars[e.ops[k].args[1]].type = "TEMP"
     /\ EUsages(e, e.ops[k].args[1]) = 1
     /\ EProducer(e, e.ops[k].args[1]) # 0}

RECURSIVE EliminateRedundantMoves(_)
EliminateRedundantMoves(e) ==
  IF RedundantMoves(e) = {} THEN e
  ELSE LET k == MinOf(RedundantMoves(e))
           p == EProducer(e, e.ops[k].args[1])
           e1 == [e EXCEPT !.ops[p].result = e.ops[k].result]
       IN EliminateRedundantMoves([e1 EXCEPT !.ops = RemoveAt(e1.ops, k)])

(***************************************************************************)
(* ExpressionTransformer::FuseExpressions.  The loops over the inputs and  *)
(* the outputs of the second op thread the record                          *)
(*   [e1, e2, mapping, next_input, next_output]                            *)
(* where mapping takes a variable object of e2 to one of e1.               *)
(***************************************************************************)
\* Turn object i of e into a temporary and close the gap in the numbering
\* of the OUTPUT objects of r above id.
Demote(e, i) == [e EXCEPT !.vars[i] = EVar("TEMP", -1)]

RenumberOutputs(e, id) ==
  [e EXCEPT !.vars =
     List([j \in 1..Len(e.vars) |->
        IF e.vars[j].type = "OUTPUT" /\ e.vars[j].id > id
        THEN EVar("OUTPUT", e.vars[j].id - 1) ELSE e.vars[j]])]

\* Line 636: the second op is the only consumer of an output of the first
\* op, which can then become a temporary.
DemoteOutput(f, v) == Usages(f, v) = 1 /\ ~f.vars[v].out

\* Line 661: the first op is the only consumer of an output of the second.
DemoteInput(f, v) == Usages(f, v) = 1 /\ ~f.vars[v].out

\* Lines 631-658: the inputs of the second op.
RECURSIVE FuseInputs(_, _, _, _, _, _, _)
FuseInputs(f, first, second, vars1, vars2, st, k) ==
  IF k > Len(second.inputs) THEN st
  ELSE
    LET v == second.inputs[k]
        st1 ==
          IF IsInput(first, v) THEN
            [st EXCEPT !.mapping = (vars2[v] :> vars1[v]) @@ st.mapping]
          ELSE IF IsOutput(first, v) THEN
            IF DemoteOutput(f, v) THEN
              LET id == st.e1.vars[vars1[v]].id
              IN [st EXCEPT !.e1 = RenumberOutputs(Demote(st.e1, vars1[v]), id),
                            !.next_output = st.next_output - 1,
                            !.mapping = (vars2[v] :> vars1[v]) @@ st.mapping]
            ELSE [st EXCEPT !.mapping = (vars2[v] :> vars1[v]) @@ st.mapping]
          ELSE
            [st EXCEPT !.e1 = VariableExpr(st.e1, InputType(f.vars[v]), st.next_input),
                       !.next_input = st.next_input + 1,
                       !.mapping = (vars2[v] :> VariableIdx(st.e1, InputType(f.vars[v]),
                                                            st.next_input)) @@ st.mapping]
    IN The({FuseInputs(f, first, second, vars1, vars2, st2, k + 1) : st2 \in {st1}})

\* Lines 659-683: the outputs of the second op.
RECURSIVE FuseOutputs(_, _, _, _, _, _, _)
FuseOutputs(f, first, second, vars1, vars2, st, k) ==
  IF k > Len(second.outputs) THEN st
  ELSE
    LET v == second.outputs[k]
        st1 ==
          IF IsInput(first, v) THEN
            IF DemoteInput(f, v) THEN
              LET id == st.e1.vars[vars1[v]].id
              IN [st EXCEPT !.e1 = Demote(st.e1, vars1[v]),
                            !.e2 = RenumberOutputs(st.e2, id),
                            !.next_output = st.next_output - 1,
                            !.mapping = (vars2[v] :> vars1[v]) @@ st.mapping]
            ELSE [st EXCEPT !.mapping = (vars2[v] :> vars1[v]) @@ st.mapping]
          ELSE
            [st EXCEPT !.e1 = VariableExpr(st.e1, "OUTPUT", st.next_output),
                       !.next_output = st.next_output + 1,
                       !.mapping = (vars2[v] :> VariableIdx(st.e1, "OUTPUT",
                                                            st.next_output)) @@ st.mapping]
    IN The({FuseOutputs(f, first, second, vars1, vars2, st2, k + 1) : st2 \in {st1}})

\* Lines 620-629: the state of the loops before the first one; an Assign
\* without outputs gets an implicit output for its target.
FuseStart(first, second, m1, m2) ==
  LET implicit == IsAssignmentOp(second) /\ Len(second.outputs) = 0
  IN [e1 |-> IF implicit THEN VariableExpr(m1.e, "OUTPUT", Len(first.outputs)) ELSE m1.e,
      e2 |-> IF implicit THEN VariableExpr(m2.e, "OUTPUT", 0) ELSE m2.e,
      mapping |-> IF implicit
                  THEN (VariableIdx(m2.e, "OUTPUT", 0) :>
                          VariableIdx(m1.e, "OUTPUT", Len(first.outputs)))
                  ELSE <<>>,
      next_input |-> Len(first.inputs),
      next_output |-> Len(first.outputs) + (IF implicit THEN 1 ELSE 0)]

\* Lines 631-683: the two loops, given the mapped expressions of the ops.
FuseMapped(f, first, second, m1, m2) ==
  The({FuseOutputs(f, first, second, m1.m, m2.m, st, 1) :
         st \in {FuseInputs(f, first, second, m1.m, m2.m,
                            FuseStart(first, second, m1, m2), 1)}})

\* Lines 684-688.
MergeFused(st) == Merge(CompactTempVars(st.e1), CompactTempVars(st.e2), st.mapping)

\* The merged expression of FuseExpressions, before the reduction check.
MappedExpr(f, op) == The({MapVars(f, op, e) : e \in {InitExpression(f, op)}})

FusedExpr(f, first, second) ==
  The({MergeFused(st) :
         st \in {FuseMapped(f, first, second, m1, m2) :
                   m1 \in {MappedExpr(f, first)}, m2 \in {MappedExpr(f, second)}}})

\* FuseExpressions without the check of lines 690-694.
NoReductionCheck(e) == FALSE

\* Lines 690-694: a reduction whose result is used in the expression.
ReductionUsed(e) ==
  \E k \in 1..Len(e.ops) : Reduction(e.ops[k].type) /\ EUsages(e, e.ops[k].result) > 0

\* FuseExpressions: the merged recipe, <<>> (the empty string) when the
\* fusion is refused.
FusedRecipe(e) ==
  IF ReductionUsed(e) THEN <<>> ELSE AsRecipe(EliminateRedundantMoves(e))

FuseExpressions(f, first, second) ==
  The({FusedRecipe(e) : e \in {FusedExpr(f, first, second)}})

(***************************************************************************)
(* Flow editing operations used by the transformers.                       *)
(***************************************************************************)
SetOp(f, o, op) == [f EXCEPT !.ops[OpPos(f, o)] = op]

\* Operation::SetAttr("expr", recipe).
SetRecipe(f, o, recipe) == SetOp(f, o, [GetOp(f, o) EXCEPT !.expr = recipe])

DeleteVariable(f, v) == [f EXCEPT !.vars = Table([x \in (DOMAIN f.vars) \ {v} |-> f.vars[x]])]

DeleteOperation(f, o) == [f EXCEPT !.ops = RemoveAt(f.ops, OpPos(f, o))]

\* Operation::RemoveInput / RemoveOutput: the first edge to the variable.
RemoveInput(f, o, v) ==
  SetOp(f, o, [GetOp(f, o) EXCEPT !.inputs = RemoveFirst(GetOp(f, o).inputs, v)])

RemoveOutput(f, o, v) ==
  SetOp(f, o, [GetOp(f, o) EXCEPT !.outputs = RemoveFirst(GetOp(f, o).outputs, v)])

\* Operation::MoveInput / MoveOutput: the edge goes to the end of the other
\* op's list.
MoveInput(f, o, v, to) ==
  LET f1 == RemoveInput(f, o, v)
  IN SetOp(f1, to, [GetOp(f1, to) EXCEPT !.inputs = Append(GetOp(f1, to).inputs, v)])

MoveOutput(f, o, v, to) ==
  LET f1 == RemoveOutput(f, o, v)
  IN SetOp(f1, to, [GetOp(f1, to) EXCEPT !.outputs = Append(GetOp(f1, to).outputs, v)])

\* Flow::Fuse, first loop: move the inputs of the second op to the first.
RECURSIVE FuseMoveInputs(_, _, _)
FuseMoveInputs(f, first, second) ==
  IF GetOp(f, second).inputs = <<>> THEN f
  ELSE
    LET v == GetOp(f, second).inputs[1]
        f1 ==
          IF IsInput(GetOp(f, first), v) THEN RemoveInput(f, second, v)
          ELSE IF IsOutput(GetOp(f, first), v) THEN
            LET g == RemoveInput(f, second, v)
            IN IF Usages(g, v) = 0 /\ ~g.vars[v].out
               THEN DeleteVariable(RemoveOutput(g, first, v), v)
               ELSE g
          ELSE MoveInput(f, second, v, first)
    IN FuseMoveInputs(f1, first, second)

\* Flow::Fuse, second loop: move the outputs of the second op to the first.
RECURSIVE FuseMoveOutputs(_, _, _)
FuseMoveOutputs(f, first, second) ==
  IF GetOp(f, second).outputs = <<>> THEN f
  ELSE
    LET v == GetOp(f, second).outputs[1]
        f1 ==
          IF IsInput(GetOp(f, first), v) THEN
            IF Usages(f, v) = 1 /\ ~f.vars[v].out
            THEN DeleteVariable(RemoveOutput(RemoveInput(f, first, v), second, v), v)
            ELSE MoveOutput(RemoveInput(f, first, v), second, v, first)
          ELSE IF IsOutput(GetOp(f, first), v) THEN RemoveOutput(f, second, v)
          ELSE MoveOutput(f, second, v, first)
    IN FuseMoveOutputs(f1, first, second)

\* Flow::Fuse(first, second, combined, merge_inputs = true): the first op
\* becomes the combined op and the second op is deleted.
MergeAttributes(a, b, combined) ==
  [a EXCEPT !.type = combined,
            !.strict = a.strict \/ b.strict,
            !.nomerge = a.nomerge \/ b.nomerge,
            !.expr = IF a.expr = <<>> THEN b.expr ELSE a.expr]

FuseOps(f, first, second, combined) ==
  DeleteOperation(SetOp(f, first, MergeAttributes(GetOp(f, first), GetOp(f, second),
                                                  combined)),
                  second)

Fuse(f, first, second, combined) ==
  FuseOps(FuseMoveOutputs(FuseMoveInputs(f, first, second), first, second),
          first, second, combined)

\* Flow::Eliminate: bypass an op with one input and one output.  The output
\* variable is merged into the input variable: its consumers read the input
\* and the input takes over its output flag.
Eliminate(f, o) ==
  LET op == GetOp(f, o)
  IN IF Len(op.inputs) > 0
     THEN LET input  == op.inputs[1]
              output == op.outputs[1]
              ops1 == List([k \in 1..Len(f.ops) |->
                         [f.ops[k] EXCEPT !.inputs =
                            List([j \in 1..Len(f.ops[k].inputs) |->
                               IF f.ops[k].inputs[j] = output THEN input
                               ELSE f.ops[k].inputs[j]])]])
              f1 == [f EXCEPT !.ops = ops1,
                              !.vars[input].out = f.vars[input].out \/ f.vars[output].out]
          IN DeleteOperation(DeleteVariable(f1, output), o)
     ELSE DeleteOperation(f, o)

\* Flow::RemoveOperation: remove an op and its output variables.
RemoveOperation(f, o) ==
  LET outs == Range(GetOp(f, o).outputs)
      f1 == [f EXCEPT !.vars = Table([x \in (DOMAIN f.vars) \ outs |-> f.vars[x]])]
  IN DeleteOperation(f1, o)

\* Operation::ReplaceInput.
ReplaceInput(f, o, v, replacement) ==
  SetOp(f, o, [GetOp(f, o) EXCEPT !.inputs =
                 List([j \in 1..Len(GetOp(f, o).inputs) |->
                    IF GetOp(f, o).inputs[j] = v THEN replacement
                    ELSE GetOp(f, o).inputs[j]])])

\* Flow::Find("A|k:B"): the ops of type B whose input k is produced by an op
\* of type A, in flow order.
Matches(f, op, A, k, B) ==
  /\ op.type = B
  /\ Len(op.inputs) > k
  /\ Producer(f, op.inputs[k + 1]) # 0
  /\ GetOp(f, Producer(f, op.inputs[k + 1])).type = A

RECURSIVE FindFrom(_, _, _, _, _)
FindFrom(f, A, k, B, i) ==
  IF i > Len(f.ops) THEN <<>>
  ELSE (IF Matches(f, f.ops[i], A, k, B) THEN <<f.ops[i].id>> ELSE <<>>)
       \o FindFrom(f, A, k, B, i + 1)

Find(f, A, k, B) == FindFrom(f, A, k, B, 1)

(***************************************************************************)
(* ExpressionTransformer::Combine.                                         *)
(***************************************************************************)
\* Lines 534-562: degrees, types and shapes.
ShapesOk(f, first, second) ==
  LET assign == IsAssignmentOp(second)
      prototype == f.vars[GetPrototype(f, first)]
      inOk(v)  == /\ f.vars[v].type = prototype.type
                  /\ IsCompatible(f.vars[v].shape, prototype.shape)
      outOk(v) == /\ f.vars[v].type = prototype.type
                  /\ (f.vars[v].shape = prototype.shape \/ Rank(f.vars[v]) = 0)
  IN /\ Len(first.inputs) >= 1
     /\ Len(first.outputs) >= 1
     /\ Len(second.inputs) >= 1
     /\ (assign \/ Len(second.outputs) >= 1)
     /\ \A v \in Range(first.inputs) \cup Range(second.inputs) : inOk(v)
     /\ \A v \in Range(first.outputs) \cup Range(second.outputs) : outOk(v)

\* Combine without the check of lines 564-570.
NoDependencyCheck(f, first, second) == FALSE

\* Lines 564-570: an input of one op depends on the other op through a
\* third op.
IndirectDependency(f, first, second) ==
  \/ \E v \in Range(first.inputs) :
        Producer(f, v) # second.id /\ DependsOn(f, v, second.id)
  \/ \E v \in Range(second.inputs) :
        Producer(f, v) # first.id /\ DependsOn(f, v, first.id)

\* Combine without the checks of lines 531-532.
MergeableAnyway(f, first, second) ==
  /\ ShapesOk(f, first, second)
  /\ ~IndirectDependency(f, first, second)

\* The checks of Combine before the call of FuseExpressions (lines 531-570).
Mergeable(f, first, second) ==
  /\ ~first.nomerge
  /\ ~second.nomerge
  /\ ShapesOk(f, first, second)
  /\ ~IndirectDependency(f, first, second)

\* Lines 573-574: the fused recipe, <<>> when Combine returns false.
Recipe(f, first, second) ==
  IF Mergeable(f, first, second) THEN FuseExpressions(f, first, second) ELSE <<>>

\* Lines 582-598: make the assignment target the first input again.  The
\* variables of input target_index (vt) and of input 0 (v0) exchange ids.
SwapIds(e, vt, v0, target_index) ==
  AsRecipe([e EXCEPT !.vars[vt] = EVar(e.vars[vt].type, 0),
                     !.vars[v0] = EVar(e.vars[v0].type, target_index)])

SwapWithFirst(e, vt, target_index) ==
  SwapIds(VariableExpr(e, "INPUT", 0), vt, VariableIdx(e, "INPUT", 0), target_index)

SwapInputs(e, target_index) ==
  SwapWithFirst(VariableExpr(e, "INPUT", target_index),
                VariableIdx(e, "INPUT", target_index), target_index)

SwapTarget(recipe, target_index) == SwapInputs(Parse(recipe), target_index)

\* The fused op as Flow::Fuse leaves it, with the fused recipe, before the
\* assignment target is moved (lines 572-580).
PreSwap(f, o1, o2, recipe) ==
  SetRecipe(Fuse(f, o1, o2, IF IsAssignmentOp(GetOp(f, o2)) THEN "Assign" ELSE "Calculate"),
            o1, recipe)

\* Lines 585-597: the target is not the first input of the fused op.
MoveTarget(f, o, fused, target_index) ==
  SetOp(f, o, [fused EXCEPT !.expr = SwapTarget(fused.expr, target_index),
                            !.inputs = Swap(fused.inputs, 1, target_index + 1)])

\* Lines 582-598.
Retarget(f, o, fused, second) ==
  IF IsAssignmentOp(second) /\ fused.inputs[1] # second.inputs[1]
  THEN MoveTarget(f, o, fused, IndexOf(fused.inputs, second.inputs[1]) - 1)
  ELSE f

RetargetFused(f, o, second) == Retarget(f, o, GetOp(f, o), second)

\* Combine without the call of Flow::Fuse of line 579: the ops stay.
CombinedInPlace(f, o1, o2, recipe) == f

\* Combine(flow, first, second) when the checks pass: the flow with the two
\* ops fused into the first one.  When first and second are the same op,
\* Flow::Fuse deletes it and returns it, and lines 582-601 write to the
\* deleted op: the flow is left without the op.
Combined(f, o1, o2, recipe) ==
  IF o1 = o2 THEN Fuse(f, o1, o2, "Calculate")
  ELSE RetargetFused(PreSwap(f, o1, o2, recipe), o1, GetOp(f, o2))

(***************************************************************************)
(* RemoveUnusedInputs::Transform, the body of its loop for one op.         *)
(***************************************************************************)
\* Express::EliminateInput: the inputs above the removed one move down.
EliminateInput(e, i) ==
  [e EXCEPT !.vars =
     List([j \in 1..Len(e.vars) |->
        IF e.vars[j].type \in {"INPUT", "CONST"} /\ e.vars[j].id > i
        THEN EVar(e.vars[j].type, e.vars[j].id - 1) ELSE e.vars[j]])]

\* The input positions (0-based) the loop of lines 738-748 would remove, e
\* being the expression of the op.
UnusedInputs(op, e) ==
  {i \in 0..(Len(op.inputs) - 1) :
     /\ Lookup(e, "INPUT", i) = 0
     /\ Lookup(e, "CONST", i) = 0
     /\ ~(op.type = "Assign" /\ i = 0)}

\* Lines 742-744.
RemoveUnused(f, o, e, i) ==
  SetRecipe(RemoveInput(f, o, GetOp(f, o).inputs[i + 1]), o, AsRecipe(EliminateInput(e, i)))

(***************************************************************************)
(* DivTransformer::Transform.                                              *)
(***************************************************************************)
IsDiv(op) == op.type \in {"Div", "RealDiv"} /\ Len(op.inputs) = 2

\* Lines 348-349: Div(x, c) with c a float constant used here only.
DivByConstant(f, op) ==
  LET second == f.vars[op.inputs[2]]
  IN /\ second.type = "float"
     /\ Elements(second) = 1
     /\ IsConstant(second)
     /\ Usages(f, op.inputs[2]) = 1

\* Lines 358-361: Div(1, x).
DivOfOne(f, op) ==
  LET first == f.vars[op.inputs[1]]
  IN /\ first.type = "float"
     /\ Elements(first) = 1
     /\ IsConstant(first)
     /\ GetData(f, first) = <<1, 1>>

\* 1.0 / value.
Inverse(value) ==
  IF value[1] < 0 THEN <<-value[2], -value[1]>> ELSE <<value[2], value[1]>>

\* Lines 351-356 with the multiplier stored through second->data, in the
\* buffer of the constant.
DivToMulInPlace(f, o, c) ==
  [SetOp(f, o, [GetOp(f, o) EXCEPT !.type = "Mul"])
     EXCEPT !.mem[f.vars[c].data] = Inverse(GetData(f, f.vars[c]))]

\* Lines 351-356: Flow::AllocateMemory gives a new buffer, which gets the
\* multiplier and becomes the data of the constant.
DivToMul(f, o, c) ==
  [SetOp(f, o, [GetOp(f, o) EXCEPT !.type = "Mul"])
     EXCEPT !.mem = Append(f.mem, Inverse(GetData(f, f.vars[c]))),
            !.vars[c].data = Len(f.mem) + 1]

\* Lines 363-365 with the second input removed.
DivToReciprocalOfFirst(f, o) ==
  RemoveInput(SetOp(f, o, [GetOp(f, o) EXCEPT !.type = "Reciprocal"]),
              o, GetOp(f, o).inputs[2])

\* Lines 363-365.
DivToReciprocal(f, o) ==
  RemoveInput(SetOp(f, o, [GetOp(f, o) EXCEPT !.type = "Reciprocal"]),
              o, GetOp(f, o).inputs[1])

\* The body of the loop of lines 341-368 for one op.
DivRewrite(f, o) ==
  IF DivByConstant(f, GetOp(f, o))
  THEN DivToMul(f, o, GetOp(f, o).inputs[2])
  ELSE DivToReciprocal(f, o)

\* Lines 373-374: the square root feeds the reciprocal only.
RsqrtGuard(f, t) == ~(Usages(f, t) > 1) /\ ~f.vars[t].out

\* Lines 376-379.
RsqrtRewrite(f, rcp) ==
  LET sqrt == Producer(f, GetOp(f, rcp).inputs[1])
      f1 == Eliminate(f, sqrt)
  IN SetOp(f1, rcp, [GetOp(f1, rcp) EXCEPT !.type = "Rsqrt"])

(***************************************************************************)
(* AddNegToSubTransformer::Transform.                                      *)
(***************************************************************************)
\* Line 396.
AddNegGuard(f, n) == Usages(f, n) = 1 /\ ~f.vars[n].out

\* Lines 397-399.
AddNegRewrite(f, add) ==
  LET neg == Producer(f, GetOp(f, add).inputs[2])
      f1 == Eliminate(f, neg)
  IN SetOp(f1, add, [GetOp(f1, add) EXCEPT !.type = "Sub"])

(***************************************************************************)
(* LogicTransformer::Transform.                                            *)
(***************************************************************************)
\* Lines 776-793: the comparison that replaces the negation of a comparison.
NotCompare ==
  [Equal |-> "NotEqual", NotEqual |-> "Equal", Less |-> "GreaterEqual",
   LessEqual |-> "Greater", Greater |-> "LessEqual", GreaterEqual |-> "Less"]

\* Lines 830-831: the negation is the only consumer of the comparison.
FoldGuard(f, c) == ~(Usages(f, c) # 1) /\ ~f.vars[c].out

\* FoldNotCompare, lines 833-836.
FoldNotCompare(f, cmpop, neg, replacement) ==
  LET f1 == Eliminate(f, neg)
  IN SetOp(f1, cmpop, [GetOp(f1, cmpop) EXCEPT !.type = replacement])

\* EliminateDoubleNegation, lines 841-854.
RECURSIVE ReplaceAll(_, _, _, _)
ReplaceAll(f, os, v, replacement) ==
  IF os = <<>> THEN f
  ELSE ReplaceAll(ReplaceInput(f, os[1], v, replacement), Tail(os), v, replacement)

EliminateDoubleNegation(f, neg1, neg2) ==
  LET result == GetOp(f, neg2).outputs[1]
      inner  == GetOp(f, neg1).outputs[1]
      f1 == ReplaceAll(f, Consumers(f, result), result, GetOp(f, neg1).inputs[1])
      f2 == IF Usages(f1, result) = 0 /\ ~f1.vars[result].out
            THEN RemoveOperation(f1, neg2) ELSE f1
  IN IF Usages(f2, inner) = 0 /\ ~f2.vars[inner].out
     THEN RemoveOperation(f2, neg1) ELSE f2

\* Lines 769-794: would the body of the loop set again for this op.
LogicApplies(f, op) ==
  /\ op.type = "Not"
  /\ Len(op.inputs) = 1
  /\ Producer(f, op.inputs[1]) # 0
  /\ LET producer == GetOp(f, Producer(f, op.inputs[1]))
     IN \/ producer.type = "Not"
        \/ /\ producer.type \in DOMAIN NotCompare
           /\ FoldGuard(f, producer.outputs[1])

LogicRewrite(f, o) ==
  LET op == GetOp(f, o)
      producer == GetOp(f, Producer(f, op.inputs[1]))
  IN IF producer.type = "Not"
     THEN EliminateDoubleNegation(f, producer.id, o)
     ELSE FoldNotCompare(f, producer.id, o, NotCompare[producer.type])

\* Lines 807 and 816.
AndNotGuard(f, n) == Usages(f, n) = 1 /\ ~f.vars[n].out

\* Lines 817-820 without the swap of line 819.
AndNotNoSwap(f, logand, k) ==
  LET logneg == Producer(f, GetOp(f, logand).inputs[k + 1])
      f1 == Eliminate(f, logneg)
  IN SetOp(f1, logand, [GetOp(f1, logand) EXCEPT !.type = "AndNot"])

\* Lines 808-810 (k = 0) and 817-820 (k = 1).
AndNotRewrite(f, logand, k) ==
  LET logneg == Producer(f, GetOp(f, logand).inputs[k + 1])
      f1 == Eliminate(f, logneg)
      op == GetOp(f1, logand)
  IN SetOp(f1, logand,
           [op EXCEPT !.type = "AndNot",
                      !.inputs = IF k = 1 THEN Swap(op.inputs, 1, 2) ELSE op.inputs])

(***************************************************************************)
(* Loop positions of ExpressionTransformer::Transform.                     *)
(***************************************************************************)
\* Lines 415-422: the candidate list, in flow order.
RECURSIVE CandidatesFrom(_, _)
CandidatesFrom(f, k) ==
  IF k > Len(f.ops) THEN <<>>
  ELSE (IF (IsCalculateOp(f.ops[k]) \/ IsAssignmentOp(f.ops[k])) /\ ~f.ops[k].strict
        THEN <<f.ops[k].id>> ELSE <<>>) \o CandidatesFrom(f, k + 1)

Candidates(f) == CandidatesFrom(f, 1)

\* The loop of lines 429-461 without the check of lines 441-450.
AlwaysContained(f, producer, op) == TRUE

\* Lines 443-450: the assignment is the sole consumer of all the outputs of
\* the producer.
Contained(f, producer, op) ==
  \A v \in Range(producer.outputs) :
     ~(Usages(f, v) # 1 \/ Consumers(f, v)[1] # op.id \/ f.vars[v].out)

\* Is Combine(producer of input j, candidate i) called in the loop of
\* phase 1 (lines 429-461) or phase 2 (lines 469-490).
PairCall(f, work, phase, i, j) ==
  /\ work[i] # 0
  /\ LET op == GetOp(f, work[i])
     IN /\ IF phase = "E1" THEN IsAssignmentOp(op) ELSE IsCalculateOp(op)
        /\ j <= Len(op.inputs)
        /\ Producer(f, op.inputs[j]) # 0
        /\ LET producer == GetOp(f, Producer(f, op.inputs[j]))
           IN /\ IsCalculateOp(producer)
              /\ ~producer.strict
              /\ (phase = "E1" => Contained(f, producer, op))

\* The calls still to come in this pass of the loop, from position (i, j).
PairCalls(f, c, phase) ==
  UNION {{<<i, j>> : j \in {j \in 1..Len(GetOp(f, c.work[i]).inputs) :
                              /\ (i > c.i \/ j >= c.j)
                              /\ PairCall(f, c.work, phase, i, j)}} :
         i \in {i \in 1..Len(c.work) : i >= c.i /\ c.work[i] # 0}}

NextPair(f, c, phase) ==
  CHOOSE q \in PairCalls(f, c, phase) :
    \A r \in PairCalls(f, c, phase) : q[1] < r[1] \/ (q[1] = r[1] /\ q[2] <= r[2])

\* Lines 500-513: the first two calculate ops among the consumers of a
\* non-scalar variable with two or more usages.
RECURSIVE Qualifying(_, _)
Qualifying(f, os) ==
  IF os = <<>> THEN <<>>
  ELSE (IF IsCalculateOp(GetOp(f, os[1])) /\ ~GetOp(f, os[1]).strict
        THEN <<os[1]>> ELSE <<>>) \o Qualifying(f, Tail(os))

SiblingCall(f, v) ==
  /\ ~(Usages(f, v) < 2)
  /\ ~(Elements(f.vars[v]) < 2)
  /\ Len(Qualifying(f, Consumers(f, v))) >= 2

\* The variables of the loop of line 498 still to come, from variable i.
SiblingCalls(f, c) == {v \in DOMAIN f.vars : v >= c.i /\ SiblingCall(f, v)}

(***************************************************************************)
(* The transformer pipeline: the transformers in registration order        *)
(* (lines 1064-1068), run pass after pass until a pass in which none       *)
(* reports a change.  Schedule lists the loops of the transformers.        *)
(***************************************************************************)
Pipeline == <<"ExpressionTransformer", "RemoveUnusedInputs", "DivTransformer",
              "AddNegToSubTransformer", "LogicTransformer">>

Loops ==
  [ExpressionTransformer  |-> <<"E1", "E2", "E3">>,
   RemoveUnusedInputs     |-> <<"Unused">>,
   DivTransformer         |-> <<"Div1", "Div2">>,
   AddNegToSubTransformer |-> <<"AddNeg">>,
   LogicTransformer       |-> <<"Logic", "AndNot0", "AndNot1">>]

RECURSIVE ScheduleFrom(_)
ScheduleFrom(k) ==
  IF k > Len(Pipeline) THEN <<>> ELSE Loops[Pipeline[k]] \o ScheduleFrom(k + 1)

Schedule == ScheduleFrom(1)

OpSeq(f) == List([k \in 1..Len(f.ops) |-> f.ops[k].id])

\* The loop state on entry of a loop.
Enter(p, f, c) ==
  LET base == [c EXCEPT !.i = 1, !.j = 1, !.again = FALSE]
  IN CASE p = "E1" -> [work |-> Candidates(f), i |-> 1, j |-> 1, again |-> FALSE,
                       calls |-> 0, wins |-> 0, mark |-> 0, n0 |-> Len(f.ops),
                       restarts |-> 0]
       [] p = "E2" -> [base EXCEPT !.mark = c.wins]
       [] p = "E3" -> [base EXCEPT !.i = 0, !.mark = c.wins]
       [] p = "Unused" -> [base EXCEPT !.work = OpSeq(f)]
       [] p = "Div1" -> [base EXCEPT !.work = OpSeq(f)]
       [] p = "Div2" -> [base EXCEPT !.work = Find(f, "Sqrt", 0, "Reciprocal")]
       [] p = "AddNeg" -> [base EXCEPT !.work = Find(f, "Neg", 1, "Add")]
       [] p = "Logic" -> [base EXCEPT !.work = <<>>, !.n0 = Len(f.ops), !.restarts = 0, !.wins = 0]
       [] p = "AndNot0" -> [base EXCEPT !.work = Find(f, "Not", 0, "And")]
       [] p = "AndNot1" -> [base EXCEPT !.work = Find(f, "Not", 1, "And")]

(***************************************************************************)
(* The flows the compiler is given.  The families below give the constants *)
(* by value (<<>> for no constant); Load puts each constant in a buffer of *)
(* its own.                                                                *)
(***************************************************************************)
Constants(f) == {v \in DOMAIN f.vars : f.vars[v].data # <<>>}

Address(f, v) == Cardinality({u \in Constants(f) : u <= v})

Load(f) ==
  [ops  |-> f.ops,
   vars |-> Table([v \in DOMAIN f.vars |->
               [f.vars[v] EXCEPT !.data = IF v \in Constants(f) THEN Address(f, v) ELSE 0]]),
   mem  |-> List([a \in 1..Cardinality(Constants(f)) |->
               f.vars[CHOOSE v \in Constants(f) : Address(f, v) = a].data])]

Scalar == <<>>
Vec == <<2>>
Mat == <<2, 2>>

FVar(shape, data, out) == [type |-> "float", shape |-> shape, data |-> data, out |-> out]

FOp(id, type, inputs, outputs, nomerge) ==
  [id |-> id, type |-> type, inputs |-> inputs, outputs |-> outputs,
   expr |-> <<>>, strict |-> FALSE, nomerge |-> nomerge]

Tensor(out) == FVar(Vec, <<>>, out)

\* y = Relu(Add(Mul(a, b), c)); the product may be a flow output, the
\* addition may be kept out of merging and the Relu may be strict.
ChainFlows ==
  {[ops  |-> <<FOp(1, "Mul", <<1, b>>, <<4>>, FALSE),
               FOp(2, "Add", <<4, 3>>, <<5>>, nm),
               [FOp(3, "Relu", <<5>>, <<6>>, FALSE) EXCEPT !.strict = st]>>,
    vars |-> Table([v \in 1..6 |-> Tensor(v = 6 \/ (v = 4 /\ o))])] :
     o \in BOOLEAN, nm \in BOOLEAN, st \in BOOLEAN, b \in {1, 2}}

\* s = Sum(x); y = Add(s, k); z = Mul(y, x), and s = Sum(x); n = Neg(x).
ReductionFlows ==
  {[ops  |-> <<FOp(1, "Sum", <<1>>, <<2>>, FALSE),
               FOp(2, "Add", <<2, 3>>, <<4>>, FALSE),
               FOp(3, "Mul", <<4, 1>>, <<5>>, FALSE)>>,
    vars |-> Table([v \in 1..5 |->
                IF v = 2 THEN FVar(Scalar, <<>>, o)
                ELSE IF v = 3 THEN FVar(Scalar, k, FALSE)
                ELSE IF v = 4 THEN FVar(Scalar, <<>>, FALSE)
                ELSE Tensor(v = 5)])] :
     o \in BOOLEAN, k \in {<<1, 1>>, <<3, 1>>}}
  \cup
  {[ops  |-> <<FOp(1, "Sum", <<1>>, <<2>>, FALSE),
               FOp(2, "Neg", <<1>>, <<3>>, FALSE)>>,
    vars |-> Table([v \in 1..3 |-> IF v = 2 THEN FVar(Scalar, <<>>, TRUE) ELSE Tensor(v = 3)])]}

\* c = Mul(k, x) or Mul(x, k); Assign(target, c), for the kinds of k: a
\* tensor, a scalar constant, the system constant one, a scalar variable.
\* The target may be a flow output.
AssignFlows ==
  {[ops  |-> <<FOp(1, "Mul", IF first THEN <<1, 2>> ELSE <<2, 1>>, <<4>>, FALSE),
               FOp(2, "Assign", <<3, 4>>, <<>>, FALSE)>>,
    vars |-> Table([v \in 1..4 |-> IF v = 1 THEN k ELSE Tensor(v = 3 /\ to)])] :
     first \in BOOLEAN, to \in BOOLEAN,
     k \in {Tensor(FALSE), FVar(Scalar, <<3, 1>>, FALSE),
            FVar(Scalar, <<1, 1>>, FALSE), FVar(Scalar, <<>>, FALSE)}}

\* a = Neg(x); b = third(a); c = Add(a, b): the addition depends on the
\* negation directly and through a third op that is not merged.
DiamondFlows ==
  {[ops  |-> <<FOp(1, "Neg", <<1>>, <<2>>, FALSE),
               FOp(2, third, <<2>>, <<3>>, third = "Exp"),
               FOp(3, "Add", IF left THEN <<2, 3>> ELSE <<3, 2>>, <<4>>, FALSE)>>,
    vars |-> Table([v \in 1..4 |-> Tensor(v = 4)])] :
     third \in {"Exp", "Softmax"}, left \in BOOLEAN}

\* y = Add(x, z) given as a Calculate op that also takes the sum s of x as
\* an input; s, and a second output of the op that computes it, may have
\* other readers.
CalculateFlows ==
  {[ops  |-> <<[FOp(1, "Calculate", <<1, 2, 3>>, <<4>>, FALSE) EXCEPT !.expr =
                  << [type |-> "ADD", result |-> EVar("OUTPUT", 0),
                      args |-> <<EVar("INPUT", 0), EVar("INPUT", 1)>>] >>],
               IF two
               THEN [FOp(2, "Calculate", <<1>>, <<3, 5>>, FALSE) EXCEPT !.expr =
                       << [type |-> "SUM", result |-> EVar("OUTPUT", 0),
                           args |-> <<EVar("INPUT", 0)>>],
                          [type |-> "MAX", result |-> EVar("OUTPUT", 1),
                           args |-> <<EVar("INPUT", 0)>>] >>]
               ELSE FOp(2, "Sum", <<1>>, <<3>>, FALSE)>>,
    vars |-> Table([v \in (IF two THEN 1..5 ELSE 1..4) |->
                IF v = 1 THEN Tensor(FALSE)
                ELSE IF v = 3 THEN FVar(Scalar, <<>>, o)
                ELSE IF v = 5 THEN FVar(Scalar, <<>>, TRUE)
                ELSE FVar(Mat, <<>>, v = 4)])] :
     two \in BOOLEAN, o \in BOOLEAN}

\* b = Not(a); c = Not(b), with an optional reader d = Abs(c); b and c may
\* be flow outputs.  The ops are kept out of merging.
DoubleNegationFlows ==
  {[ops  |-> <<FOp(1, "Not", <<1>>, <<2>>, TRUE),
               FOp(2, "Not", <<2>>, <<3>>, TRUE)>>
             \o (IF reader THEN <<FOp(3, "Abs", <<3>>, <<4>>, TRUE)>> ELSE <<>>),
    vars |-> Table([v \in (IF reader THEN 1..4 ELSE 1..3) |->
                Tensor((v = 2 /\ ob) \/ (v = 3 /\ oc) \/ v = 4)])] :
     reader \in BOOLEAN, ob \in BOOLEAN, oc \in BOOLEAN}

Comparisons == {"Equal", "NotEqual", "Less", "LessEqual", "Greater", "GreaterEqual"}

\* c = compare(a, b); d = Not(c); c may be a flow output.
NotCompareFlows ==
  {[ops  |-> <<FOp(1, compare, <<1, 2>>, <<3>>, TRUE),
               FOp(2, "Not", <<3>>, <<4>>, TRUE)>>,
    vars |-> Table([v \in 1..4 |-> Tensor(v = 4 \/ (v = 3 /\ o))])] :
     compare \in Comparisons, o \in BOOLEAN}

\* n = Not(x); r = And(n, y) or And(y, n); n may be a flow output.
AndNotFlows ==
  {[ops  |-> <<FOp(1, "Not", <<1>>, <<3>>, TRUE),
               FOp(2, "And", IF left THEN <<3, 2>> ELSE <<2, 3>>, <<4>>, TRUE)>>,
    vars |-> Table([v \in 1..4 |-> Tensor(v = 4 \/ (v = 3 /\ o))])] :
     left \in BOOLEAN, o \in BOOLEAN}

\* t = Sqrt(x); r = Div(one, t) or Reciprocal(t); q = Div(r, k); t may be a
\* flow output or have a second reader.
DivFlows ==
  {[ops  |-> <<FOp(1, "Sqrt", <<1>>, <<2>>, TRUE),
               IF div THEN FOp(2, "Div", <<3, 2>>, <<4>>, TRUE)
                      ELSE FOp(2, "Reciprocal", <<2>>, <<4>>, TRUE),
               FOp(3, "Div", <<4, 5>>, <<6>>, TRUE)>>
             \o (IF reader THEN <<FOp(4, "Abs", <<2>>, <<7>>, TRUE)>> ELSE <<>>),
    vars |-> Table([v \in (IF reader THEN 1..7 ELSE 1..6) |->
                IF v = 3 THEN FVar(Scalar, <<1, 1>>, FALSE)
                ELSE IF v = 5 THEN FVar(Scalar, <<2, 1>>, FALSE)
                ELSE Tensor(v = 6 \/ v = 7 \/ (v = 2 /\ o))])] :
     div \in BOOLEAN, reader \in BOOLEAN, o \in BOOLEAN}

\* n = Neg(b); s = Add(a, n); n may be a flow output or have a second
\* reader.
AddNegFlows ==
  {[ops  |-> <<FOp(1, "Neg", <<2>>, <<3>>, TRUE),
               FOp(2, "Add", <<1, 3>>, <<4>>, TRUE)>>
             \o (IF reader THEN <<FOp(3, "Abs", <<3>>, <<5>>, TRUE)>> ELSE <<>>),
    vars |-> Table([v \in (IF reader THEN 1..5 ELSE 1..4) |->
                Tensor(v = 4 \/ v = 5 \/ (v = 3 /\ o))])] :
     reader \in BOOLEAN, o \in BOOLEAN}

\* y = Add(Mul(x, m), u) with u = Neg(x), x a vector that is broadcast over
\* the matrix m; u may be a flow output, the Neg may be strict, and the ops
\* that read x come in either order.
BroadcastFlows ==
  {[ops  |-> (IF mulfirst
              THEN <<FOp(1, "Mul", <<1, 2>>, <<3>>, FALSE),
                     [FOp(2, "Neg", <<1>>, <<4>>, FALSE) EXCEPT !.strict = st]>>
              ELSE <<[FOp(2, "Neg", <<1>>, <<4>>, FALSE) EXCEPT !.strict = st],
                     FOp(1, "Mul", <<1, 2>>, <<3>>, FALSE)>>)
             \o <<FOp(3, "Add", <<3, 4>>, <<5>>, FALSE)>>,
    vars |-> Table([v \in 1..5 |->
                IF v \in {1, 4} THEN FVar(Vec, <<>>, v = 4 /\ o)
                ELSE FVar(Mat, <<>>, v = 5)])] :
     mulfirst \in BOOLEAN, o \in BOOLEAN, st \in BOOLEAN}

\* y = Add(Mul(Mul(x, one), two), half) with the scalar constants 1, 2 and
\* 1/2; the first product may be a flow output.
ConstantFlows ==
  {[ops  |-> <<FOp(1, "Mul", <<1, 2>>, <<5>>, FALSE),
               FOp(2, "Mul", <<5, 3>>, <<6>>, FALSE),
               FOp(3, "Add", <<6, 4>>, <<7>>, FALSE)>>,
    vars |-> Table([v \in 1..7 |->
                IF v = 2 THEN FVar(Scalar, <<1, 1>>, FALSE)
                ELSE IF v = 3 THEN FVar(Scalar, <<2, 1>>, FALSE)
                ELSE IF v = 4 THEN FVar(Scalar, <<1, 2>>, FALSE)
                ELSE Tensor(v = 7 \/ (v = 5 /\ o))])] :
     o \in BOOLEAN}

\* y = Add(a, b) given as a Calculate op, or Assign(t, b), with an input u
\* between them that the recipe does not read, for the kinds of u: a tensor,
\* a scalar variable, a scalar constant and the system constant one.
UnusedFlows ==
  {[ops  |-> << IF assign
                THEN [FOp(1, "Assign", <<1, 2, 3>>, <<>>, FALSE) EXCEPT !.expr =
                        << [type |-> "MOV", result |-> EVar("OUTPUT", 0),
                            args |-> <<EVar("INPUT", 2)>>] >>]
                ELSE [FOp(1, "Calculate", <<1, 2, 3>>, <<4>>, FALSE) EXCEPT !.expr =
                        << [type |-> "ADD", result |-> EVar("OUTPUT", 0),
                            args |-> <<EVar("INPUT", 0), EVar("INPUT", 2)>>] >>] >>,
    vars |-> Table([v \in (IF assign THEN 1..3 ELSE 1..4) |->
                IF v = 2 THEN u ELSE Tensor(v = 4)])] :
     assign \in BOOLEAN,
     u \in {Tensor(FALSE), FVar(Scalar, <<>>, FALSE),
            FVar(Scalar, <<3, 1>>, FALSE), FVar(Scalar, <<1, 1>>, FALSE)}}

\* y = Sub(a, b) given as a Calculate op kept out of merging that takes a or
\* b once more as a third input, which the recipe does not read.
RepeatFlows ==
  {[ops  |-> << [FOp(1, "Calculate", <<1, 2, again>>, <<3>>, TRUE) EXCEPT !.expr =
                   << [type |-> "SUB", result |-> EVar("OUTPUT", 0),
                       args |-> <<EVar("INPUT", 0), EVar("INPUT", 1)>>] >>] >>,
    vars |-> Table([v \in 1..3 |-> Tensor(v = 3)])] :
     again \in {1, 2}}

\* y = Mul(x, x), alone or with z = Neg(x) before or after it.
SquareFlows ==
  {[ops  |-> (IF neg = "before" THEN <<FOp(2, "Neg", <<1>>, <<3>>, FALSE)>> ELSE <<>>)
             \o <<FOp(1, "Mul", <<1, 1>>, <<2>>, FALSE)>>
             \o (IF neg = "after" THEN <<FOp(2, "Neg", <<1>>, <<3>>, FALSE)>> ELSE <<>>),
    vars |-> Table([v \in (IF neg = "none" THEN 1..2 ELSE 1..3) |-> Tensor(v > 1)])] :
     neg \in {"none", "before", "after"}}

\* Assign(t, c) with c written by p = Mul(a, b), or by a Calculate op with
\* the outputs (c, m) of which the Assign reads both or only c.  The op p may
\* be strict, the Assign may be kept out of merging, c and m may be flow
\* outputs and c may have a second reader d = Neg(c).
AbsorbFlows ==
  {[ops  |-> << [(IF outs = "one"
                  THEN FOp(1, "Mul", <<1, 2>>, <<4>>, FALSE)
                  ELSE [FOp(1, "Calculate", <<1, 2>>, <<4, 5>>, FALSE) EXCEPT !.expr =
                          << [type |-> "MUL", result |-> EVar("OUTPUT", 0),
                              args |-> <<EVar("INPUT", 0), EVar("INPUT", 1)>>],
                             [type |-> "ADD", result |-> EVar("OUTPUT", 1),
                              args |-> <<EVar("INPUT", 0), EVar("INPUT", 1)>>] >>])
                   EXCEPT !.strict = st],
                IF outs = "both"
                THEN [FOp(2, "Assign", <<3, 4, 5>>, <<>>, nm) EXCEPT !.expr =
                        << [type |-> "SUB", result |-> EVar("OUTPUT", 0),
                            args |-> <<EVar("INPUT", 1), EVar("INPUT", 2)>>] >>]
                ELSE FOp(2, "Assign", <<3, 4>>, <<>>, nm) >>
             \o (IF reader THEN <<FOp(3, "Neg", <<4>>, <<6>>, FALSE)>> ELSE <<>>),
    vars |-> Table([v \in 1..6 |-> Tensor((v = 4 /\ oc) \/ (v = 5 /\ om /\ outs # "one")
                                   \/ (v = 6 /\ reader))])] :
     outs \in {"one", "both", "other"}, st \in BOOLEAN, nm \in BOOLEAN,
     reader \in BOOLEAN, oc \in BOOLEAN, om \in BOOLEAN}

\* q = Div(x, c), alone or with r = Mul(y, c) or r = Mul(y, d), for the
\* kinds of x and c: a tensor, a scalar variable, a float or double scalar
\* constant, a constant vector.  With share the constant d has the buffer of
\* c as its data.
Double(var) == [var EXCEPT !.type = "double"]

DivConstFlows ==
  {[ops  |-> <<FOp(1, div, <<1, 2>>, <<3>>, TRUE)>>
             \o (IF other = 0 THEN <<>> ELSE <<FOp(2, "Mul", <<4, other>>, <<6>>, TRUE)>>),
    vars |-> Table([v \in 1..6 |->
                IF v = 1 THEN x
                ELSE IF v = 2 THEN c
                ELSE IF v = 5 THEN FVar(Scalar, <<2, 1>>, FALSE)
                ELSE Tensor(v = 3 \/ (v = 6 /\ other # 0))]),
    share |-> share] :
     div \in {"Div", "RealDiv"}, other \in {0, 2, 5}, share \in BOOLEAN,
     x \in {Tensor(FALSE), FVar(Scalar, <<>>, FALSE), FVar(Scalar, <<1, 1>>, FALSE),
            FVar(Scalar, <<2, 1>>, FALSE), Double(FVar(Scalar, <<1, 1>>, FALSE)),
            FVar(Vec, <<1, 1>>, FALSE)},
     c \in {Tensor(FALSE), FVar(Scalar, <<>>, FALSE), FVar(Scalar, <<2, 1>>, FALSE),
            FVar(Scalar, <<-4, 1>>, FALSE), Double(FVar(Scalar, <<2, 1>>, FALSE)),
            FVar(Vec, <<2, 1>>, FALSE)}}

\* y = Div(one, Sqrt(x)) with one the float constant 1.0; the two ops may be
\* kept out of merging.
RsqrtFlows ==
  {[ops  |-> <<FOp(1, "Sqrt", <<1>>, <<2>>, nm),
               FOp(2, "Div", <<3, 2>>, <<4>>, nm)>>,
    vars |-> Table([v \in 1..4 |->
                IF v = 3 THEN FVar(Scalar, <<1, 1>>, FALSE)
                ELSE FVar(shape, <<>>, v = 4)])] :
     nm \in BOOLEAN, shape \in {Vec, Mat}}

\* y = Add(Mul(a, b), c) with c, or the product, a tensor of doubles.
MixedFlows ==
  {[ops  |-> <<FOp(1, "Mul", <<1, 2>>, <<4>>, FALSE),
               FOp(2, "Add", <<4, 3>>, <<5>>, FALSE)>>,
    vars |-> Table([v \in 1..5 |-> IF v = d THEN Double(Tensor(FALSE)) ELSE Tensor(v = 5)])] :
     d \in {3, 4}}

\* The flow of DivConstFlows as the compiler gets it.
LoadShared(f) ==
  LET g == Load([ops |-> f.ops, vars |-> f.vars])
  IN IF f.share /\ IsConstant(g.vars[2])
     THEN [g EXCEPT !.vars[5].data = g.vars[2].data] ELSE g

\* The flows of a family, as the compiler gets them.
Given(family) == {Load(f) : f \in family}

InitialFlows ==
  Given(ChainFlows \cup ReductionFlows \cup AssignFlows \cup DiamondFlows
        \cup CalculateFlows \cup DoubleNegationFlows \cup NotCompareFlows
        \cup AndNotFlows \cup DivFlows \cup AddNegFlows
        \cup BroadcastFlows \cup ConstantFlows \cup UnusedFlows
        \cup SquareFlows \cup AbsorbFlows \cup RsqrtFlows
        \cup MixedFlows \cup RepeatFlows)
  \cup {LoadShared(f) : f \in DivConstFlows}

(***************************************************************************)
(* The state machine: the pipeline runs the transformers over the flow.    *)
(***************************************************************************)
\* Caps of the counters of loop restarts and of Combine calls, which only
\* a loop that does not end can reach.
MaxRestarts == 8
MaxCalls == 80

NoStep == [kind |-> "none"]

NoCompare == [type |-> "none"]

\* The values the operands of a folded comparison are given: a float is a
\* number or NaN.
Number(n) == [nan |-> FALSE, val |-> n]
NaN == [nan |-> TRUE, val |-> 0]
Operands == {NaN} \cup {Number(n) : n \in 0..2}

\* The truth value of a comparison of the expression language: the
\* predicates named ..OQ are ordered (false when an operand is NaN), the
\* predicate named ..UQ is unordered (true when an operand is NaN).
Holds(pred, a, b) ==
  LET ordered == ~a.nan /\ ~b.nan
  IN CASE pred = "CMPEQOQ" -> ordered /\ a.val = b.val
       [] pred = "CMPNEUQ" -> ~ordered \/ a.val # b.val
       [] pred = "CMPLTOQ" -> ordered /\ a.val < b.val
       [] pred = "CMPLEOQ" -> ordered /\ a.val <= b.val
       [] pred = "CMPGTOQ" -> ordered /\ a.val > b.val
       [] pred = "CMPGEOQ" -> ordered /\ a.val >= b.val

Init ==
  /\ flow \in InitialFlows
  /\ flow0 = flow
  /\ settled = <<>>
  /\ pc = Schedule[1]
  /\ cur = Enter(Schedule[1], flow, <<>>)
  /\ changed = FALSE
  /\ run = 1
  /\ last = NoStep
  /\ cmp = NoCompare
  /\ cell = Idle /\ recReader = Idle /\ recWriter = Idle /\ recIndex = Idle
  /\ finder = Idle /\ phrases = Idle /\ threads = Idle

Bump(n, max) == IF n < max THEN n + 1 ELSE max

ExprLoops == {"E1", "E2", "E3"}

\* The step record of a call Combine(first, second) with result ok.
Call(first, second, recipe) ==
  [kind |-> "combine", loop |-> pc, first |-> first.id, second |-> second.id,
   ok |-> recipe # <<>>, recipe |-> recipe, pre |-> flow]

\* Combine with the ops fused before the recipe is looked at: a call that
\* returns false for its recipe leaves the two ops fused.
CalledFusingFirst(first, second, recipe, c) ==
  /\ flow' = IF recipe # <<>> THEN Combined(flow, first.id, second.id, recipe)
             ELSE IF ShapesOk(flow, first, second)
             THEN Fuse(flow, first.id, second.id, "Calculate")
             ELSE flow
  /\ cur' = [c EXCEPT !.calls = Bump(cur.calls, MaxCalls)]
  /\ changed' = (changed \/ recipe # <<>>)
  /\ last' = Call(first, second, recipe)

\* Combine(flow, first, second) with the fused recipe it computed; c is the
\* loop state after the call.
Called(first, second, recipe, c) ==
  /\ flow' = IF recipe # <<>> THEN Combined(flow, first.id, second.id, recipe) ELSE flow
  /\ cur' = [c EXCEPT !.calls = Bump(cur.calls, MaxCalls)]
  /\ changed' = (changed \/ recipe # <<>>)
  /\ last' = Call(first, second, recipe)

\* Lines 455-459 and 482-487: the candidate is taken off the list and the
\* loop goes on with the next candidate; else with the next input.
PairResult(q, first, second, recipe) ==
  Called(first, second, recipe,
         IF recipe # <<>>
         THEN [cur EXCEPT !.work[q[1]] = 0, !.i = q[1] + 1, !.j = 1,
                          !.again = TRUE, !.wins = cur.wins + 1]
         ELSE [cur EXCEPT !.i = q[1], !.j = q[2] + 1])

PairCombine(q, first, second) ==
  \E recipe \in {Recipe(flow, first, second)} : PairResult(q, first, second, recipe)

PairAt(q, second) ==
  PairCombine(q, GetOp(flow, Producer(flow, second.inputs[q[2]])), second)

\* One iteration of the loops of lines 429-461 and 469-490 that reaches
\* Combine(producer, op).
PairStep ==
  /\ pc \in {"E1", "E2"}
  /\ PairCalls(flow, cur, pc) # {}
  /\ \E q \in {NextPair(flow, cur, pc)} : PairAt(q, GetOp(flow, cur.work[q[1]]))
  /\ UNCHANGED <<flow0, settled, pc, run, cmp>>
  /\ UNCHANGED outside

\* Lines 516-521: a success ends the pass over the variables.
SiblingResult(v, first, second, recipe) ==
  Called(first, second, recipe,
         IF recipe # <<>>
         THEN [cur EXCEPT !.i = 1 + MaxOf(DOMAIN flow.vars),
                          !.again = TRUE, !.wins = cur.wins + 1]
         ELSE [cur EXCEPT !.i = v + 1])

SiblingCombine(v, first, second) ==
  \E recipe \in {Recipe(flow, first, second)} : SiblingResult(v, first, second, recipe)

SiblingAt(v, os) == SiblingCombine(v, GetOp(flow, os[1]), GetOp(flow, os[2]))

\* The use of the deleted op in lines 582-601 is undefined: the program goes
\* on, or it stops there.
AfterCall(step) ==
  IF step.ok /\ step.first = step.second THEN {pc, "crashed"} ELSE {pc}

\* One iteration of the loop of lines 498-523 that reaches
\* Combine(first, second).
SiblingStep ==
  /\ pc = "E3"
  /\ SiblingCalls(flow, cur) # {}
  /\ \E v \in {MinOf(SiblingCalls(flow, cur))} :
       SiblingAt(v, Qualifying(flow, Consumers(flow, v)))
  /\ pc' \in AfterCall(last')
  /\ UNCHANGED <<flow0, settled, run, cmp>>
  /\ UNCHANGED outside

\* The for loop of an 'again' loop of ExpressionTransformer::Transform has
\* no call left.
ExprPassOver ==
  /\ pc \in ExprLoops
  /\ IF pc = "E3" THEN SiblingCalls(flow, cur) = {} ELSE PairCalls(flow, cur, pc) = {}

\* while (again): the loop starts over.
ExprRestart ==
  /\ ExprPassOver
  /\ cur.again
  /\ cur' = [cur EXCEPT !.i = IF pc = "E3" THEN 0 ELSE 1, !.j = 1, !.again = FALSE,
                        !.mark = cur.wins,
                        !.restarts = Bump(cur.restarts, MaxRestarts)]
  /\ last' = [kind |-> "restart", loop |-> pc, won |-> cur.wins - cur.mark, pre |-> flow]
  /\ UNCHANGED <<flow, flow0, settled, pc, changed, run, cmp>>
  /\ UNCHANGED outside

\* The step record of a rewrite: the op the intermediate variable mid is
\* folded into, whether the rewrite was made, and the flow before it.
Rewrite(kind, op, mid, hit) ==
  [kind |-> kind, op |-> op, mid |-> mid, hit |-> hit, pre |-> flow]

\* The steps of the loops over a list of ops without num_updates++: the
\* rewrite is made and no change is reported.
AdvanceSilently(f, hit, step) ==
  /\ flow' = f
  /\ cur' = [cur EXCEPT !.i = cur.i + 1]
  /\ last' = step
  /\ UNCHANGED <<flow0, settled, pc, changed, run, cmp>>

\* Common part of the steps of the loops over a list of ops: the next op of
\* the list is handled, giving flow f, and the change is counted.
Advance(f, hit, step) ==
  /\ flow' = f
  /\ cur' = [cur EXCEPT !.i = cur.i + 1]
  /\ changed' = (changed \/ hit)
  /\ last' = step
  /\ UNCHANGED <<flow0, settled, pc, run, cmp>>

\* RemoveUnusedInputs::Transform, one iteration of the loop of line 732.
UnusedResult(o, e, unused) ==
  Advance(IF unused # {} THEN RemoveUnused(flow, o, e, MinOf(unused)) ELSE flow,
          unused # {}, Rewrite("unused", o, 0, unused # {}))

UnusedStep ==
  /\ pc = "Unused"
  /\ cur.i <= Len(cur.work)
  /\ \E op \in {GetOp(flow, cur.work[cur.i])} :
       IF op.type \in {"Calculate", "Assign"}
       THEN \E e \in {InitExpression(flow, op)} :
              UnusedResult(op.id, e, UnusedInputs(op, e))
       ELSE UnusedResult(op.id, EmptyExpr, {})
  /\ UNCHANGED outside

\* DivTransformer::Transform, one iteration of the loop of line 341.
DivStep ==
  /\ pc = "Div1"
  /\ cur.i <= Len(cur.work)
  /\ LET o == cur.work[cur.i]
         op == GetOp(flow, o)
         hit == IsDiv(op) /\ (DivByConstant(flow, op) \/ DivOfOne(flow, op))
     IN Advance(IF hit THEN DivRewrite(flow, o) ELSE flow, hit,
                Rewrite("div", o, 0, hit))
  /\ UNCHANGED outside

\* DivTransformer::Transform, one iteration of the loop of line 370.
RsqrtStep ==
  /\ pc = "Div2"
  /\ cur.i <= Len(cur.work)
  /\ LET rcp == cur.work[cur.i]
         t == GetOp(flow, rcp).inputs[1]
         hit == RsqrtGuard(flow, t)
     IN Advance(IF hit THEN RsqrtRewrite(flow, rcp) ELSE flow, hit,
                Rewrite("rsqrt", rcp, t, hit))
  /\ UNCHANGED outside

\* AddNegToSubTransformer::Transform, one iteration of the loop of line 393.
AddNegStep ==
  /\ pc = "AddNeg"
  /\ cur.i <= Len(cur.work)
  /\ LET add == cur.work[cur.i]
         n == GetOp(flow, add).inputs[2]
         hit == AddNegGuard(flow, n)
     IN Advance(IF hit THEN AddNegRewrite(flow, add) ELSE flow, hit,
                Rewrite("addneg", add, n, hit))
  /\ UNCHANGED outside

\* LogicTransformer::Transform, one iteration of the loops of lines 804 and
\* 813.
AndNotStep ==
  /\ pc \in {"AndNot0", "AndNot1"}
  /\ cur.i <= Len(cur.work)
  /\ LET k == IF pc = "AndNot0" THEN 0 ELSE 1
         logand == cur.work[cur.i]
         n == GetOp(flow, logand).inputs[k + 1]
         hit == AndNotGuard(flow, n)
     IN Advance(IF hit THEN AndNotRewrite(flow, logand, k) ELSE flow, hit,
                [Rewrite("andnot", logand, n, hit) EXCEPT !.kind = pc])
  /\ UNCHANGED outside

\* The ops for which the body of the loop of line 768 sets again.
LogicOps(f) == {k \in 1..Len(f.ops) : LogicApplies(f, f.ops[k])}

\* LogicTransformer::Transform, one pass of the 'again' loop that ends in
\* the break of line 798: the first op a rewrite applies to is rewritten and
\* the loop starts over.
LogicStep ==
  /\ pc = "Logic"
  /\ LogicOps(flow) # {}
  /\ LET op == flow.ops[MinOf(LogicOps(flow))]
         producer == GetOp(flow, Producer(flow, op.inputs[1]))
     IN /\ flow' = LogicRewrite(flow, op.id)
        /\ last' = Rewrite(IF producer.type = "Not" THEN "notnot" ELSE "fold",
                           op.id, op.inputs[1], TRUE)
        /\ IF producer.type = "Not" THEN cmp' = cmp
           ELSE \E a \in Operands, b \in Operands :
                  cmp' = [type |-> producer.type, folded |-> NotCompare[producer.type],
                          a |-> a, b |-> b]
  /\ cur' = [cur EXCEPT !.restarts = Bump(cur.restarts, MaxRestarts)]
  /\ changed' = TRUE
  /\ UNCHANGED <<flow0, settled, pc, run>>
  /\ UNCHANGED outside

\* The loop the pipeline is in has come to its end.
LoopOver ==
  CASE pc \in ExprLoops -> ExprPassOver /\ ~cur.again
    [] pc = "Logic" -> LogicOps(flow) = {}
    [] pc \in {"Unused", "Div1", "Div2", "AddNeg", "AndNot0", "AndNot1"} ->
         cur.i > Len(cur.work)
    [] OTHER -> FALSE

Position(p) == CHOOSE k \in 1..Len(Schedule) : Schedule[k] = p

\* The next loop of the transformer, or the first loop of the next
\* transformer.
NextLoop ==
  /\ LoopOver
  /\ Position(pc) < Len(Schedule)
  /\ pc' = Schedule[Position(pc) + 1]
  /\ cur' = Enter(pc', flow, cur)
  /\ last' = [kind |-> "loop", loop |-> pc, pre |-> flow]
  /\ UNCHANGED <<flow, flow0, settled, changed, run, cmp>>
  /\ UNCHANGED outside

\* The last transformer has returned and a transformer of this pass
\* reported a change: another pass.
NextPass ==
  /\ LoopOver
  /\ Position(pc) = Len(Schedule)
  /\ changed
  /\ pc' = Schedule[1]
  /\ cur' = Enter(pc', flow, cur)
  /\ changed' = FALSE
  /\ last' = [kind |-> "pass", loop |-> pc, pre |-> flow]
  /\ UNCHANGED <<flow, flow0, settled, run, cmp>>
  /\ UNCHANGED outside

\* A full pass without a change: the pipeline terminates.
Finish ==
  /\ LoopOver
  /\ Position(pc) = Len(Schedule)
  /\ ~changed
  /\ pc' = "done"
  /\ settled' = IF run = 1 THEN flow ELSE settled
  /\ last' = [kind |-> "finish", loop |-> pc, pre |-> flow]
  /\ UNCHANGED <<flow, flow0, cur, changed, run, cmp>>
  /\ UNCHANGED outside

\* The pipeline is run again on its own result.
Rerun ==
  /\ pc = "done"
  /\ run = 1
  /\ run' = 2
  /\ pc' = Schedule[1]
  /\ cur' = Enter(pc', flow, cur)
  /\ last' = [kind |-> "rerun", loop |-> pc, pre |-> flow]
  /\ UNCHANGED <<flow, flow0, settled, changed, cmp>>
  /\ UNCHANGED outside

(***************************************************************************)
(* Compilation of the transformed flow: every operation becomes a step and *)
(* every variable a tensor, and the kernel chosen for a step adjusts it.   *)
(* The tensors keep the numbers of the variables; shared maps a tensor to  *)
(* the tensor whose storage backs it (Tensor::shared_, 0 for nullptr) and  *)
(* links holds the pairs joined by Tensor::Link.                           *)
(***************************************************************************)
\* The kernels of RegisterArithmeticLibrary: the number of inputs of the
\* kernel registered for an operation, -1 for any number.
Arity(type) ==
  IF type \in {"Calculate", "Assign"} THEN -1
  ELSE IF type = "Cond" THEN 3
  ELSE IF type \in {"Add", "Sub", "Mul", "Div", "Maximum", "Minimum", "Equal",
                    "NotEqual", "Less", "LessEqual", "Greater", "GreaterEqual",
                    "Select", "And", "Or", "Xor", "AndNot"} THEN 2
  ELSE 1

HasKernel(type) ==
  type \in {"Calculate", "Assign"} \/ (type \in DOMAIN OpTypeTable /\ type # "RealDiv")

\* Calculate::Supports.
Supports(f, step) ==
  /\ HasKernel(step.type)
  /\ Arity(step.type) = -1 \/ Len(step.inputs) = Arity(step.type)
  /\ Len(step.inputs) >= 1
  /\ step.type = "Assign" \/ Len(step.outputs) >= 1
  /\ LET prototype == f.vars[GetPrototype(f, step)]
     IN /\ \A i \in 1..Len(step.inputs) :
             /\ f.vars[step.inputs[i]].type = prototype.type
             /\ IsCompatible(f.vars[step.inputs[i]].shape, prototype.shape)
        /\ \A j \in 1..Len(step.outputs) :
             /\ f.vars[step.outputs[j]].type = prototype.type
             /\ f.vars[step.outputs[j]].shape = prototype.shape
                \/ Rank(f.vars[step.outputs[j]]) = 0
  /\ ~step.strict

\* InitExpression(const Step *, Express *), second half: a constant with
\* one element becomes CONST, another input with one element is marked
\* single; in both cases the variable of the input is made if the
\* expression has none.
RECURSIVE MarkStepInputs(_, _, _, _)
MarkStepInputs(f, step, e, i) ==
  IF i >= Len(step.inputs) THEN e
  ELSE LET input == f.vars[step.inputs[i + 1]]
       IN IF Elements(input) # 1 THEN MarkStepInputs(f, step, e, i + 1)
          ELSE LET var == VariableIdx(e, "INPUT", i)
                   e1  == VariableExpr(e, "INPUT", i)
                   e2  == IF IsConstant(input)
                          THEN [e1 EXCEPT !.vars[var] = EVar("CONST", i)]
                          ELSE e1
               IN The({MarkStepInputs(f, step, e3, i + 1) : e3 \in {e2}})

\* InitExpression(const Step *, Express *).
StepExpression(f, step) ==
  LET e == IF step.type = "Calculate"
           THEN (IF step.expr = <<>> THEN EmptyExpr ELSE Parse(step.expr))
           ELSE IF step.type = "Assign"
           THEN Parse(IF step.expr = <<>> THEN AssignRecipe ELSE step.expr)
           ELSE CompactTempVars(
                  [vars |-> List([i \in 1..Len(step.inputs) |-> EVar("INPUT", i - 1)])
                            \o <<EVar("OUTPUT", 0)>>,
                   ops  |-> << [type   |-> OpType(step.type),
                                result |-> Len(step.inputs) + 1,
                                args   |-> List([i \in 1..Len(step.inputs) |-> i])] >>])
  IN MarkStepInputs(f, step, e, 0)

\* Express::ComputeLiveRanges: the operations of the expression that
\* assign or read variable object v; first and last are the least and the
\* greatest of them.
UsedAt(e, v) ==
  {k \in 1..Len(e.ops) : e.ops[k].result = v \/ v \in Range(e.ops[k].args)}

\* Express::Var::overlaps: two live ranges that only meet in one operation,
\* the one ending where the other begins, do not overlap.
Overlaps(e, a, b) ==
  /\ UsedAt(e, a) # {}
  /\ UsedAt(e, b) # {}
  /\ MinOf(UsedAt(e, a)) < MaxOf(UsedAt(e, b))
  /\ MinOf(UsedAt(e, b)) < MaxOf(UsedAt(e, a))

\* Step::AllowInPlace with every consumer of the input accepted.
AllowInPlaceAnyConsumer(f, step, i, j) ==
  f.vars[step.inputs[i + 1]].shape = f.vars[step.outputs[j + 1]].shape

\* Step::AllowInPlace(input, output): is the operation in place accepted.
AllowInPlace(f, step, i, j) ==
  /\ Usages(f, step.inputs[i + 1]) = 1
  /\ f.vars[step.inputs[i + 1]].shape = f.vars[step.outputs[j + 1]].shape

InPlace(i, j, ok) == [input |-> i, output |-> j, ok |-> ok]

\* The loops of Calculate::Adjust without the break: after an output was
\* accepted for an input, the next outputs are tried as well.
RECURSIVE RequestsWithoutBreak(_, _, _, _, _)
RequestsWithoutBreak(f, step, e, i, j) ==
  IF i >= Len(step.inputs) THEN <<>>
  ELSE IF Lookup(e, "INPUT", i) = 0 \/ j >= Len(step.outputs)
  THEN RequestsWithoutBreak(f, step, e, i + 1, 0)
  ELSE IF Lookup(e, "OUTPUT", j) = 0 THEN RequestsWithoutBreak(f, step, e, i, j + 1)
  ELSE IF /\ f.vars[step.inputs[i + 1]].shape = f.vars[step.outputs[j + 1]].shape
          /\ ~Overlaps(e, Lookup(e, "INPUT", i), Lookup(e, "OUTPUT", j))
  THEN <<InPlace(i, j, AllowInPlace(f, step, i, j))>>
       \o RequestsWithoutBreak(f, step, e, i, j + 1)
  ELSE RequestsWithoutBreak(f, step, e, i, j + 1)

\* The loops of Calculate::Adjust over the inputs and outputs of the step:
\* the calls of AllowInPlace they make, in order, with their results.
RECURSIVE Requests(_, _, _, _, _)
Requests(f, step, e, i, j) ==
  IF i >= Len(step.inputs) THEN <<>>
  ELSE IF Lookup(e, "INPUT", i) = 0 \/ j >= Len(step.outputs)
  THEN Requests(f, step, e, i + 1, 0)
  ELSE IF Lookup(e, "OUTPUT", j) = 0 THEN Requests(f, step, e, i, j + 1)
  ELSE IF /\ f.vars[step.inputs[i + 1]].shape = f.vars[step.outputs[j + 1]].shape
          /\ ~Overlaps(e, Lookup(e, "INPUT", i), Lookup(e, "OUTPUT", j))
  THEN IF AllowInPlace(f, step, i, j)
       THEN <<InPlace(i, j, TRUE)>> \o Requests(f, step, e, i + 1, 0)
       ELSE <<InPlace(i, j, FALSE)>> \o Requests(f, step, e, i, j + 1)
  ELSE Requests(f, step, e, i, j + 1)

\* Tensor::set_shared for the accepted calls: the output is backed by the
\* storage of the input.
RECURSIVE Share(_, _, _, _)
Share(shared, step, calls, k) ==
  IF k > Len(calls) THEN shared
  ELSE Share(IF calls[k].ok
             THEN [shared EXCEPT ![step.outputs[calls[k].output + 1]] =
                                    step.inputs[calls[k].input + 1]]
             ELSE shared,
             step, calls, k + 1)

\* Calculate::Adjust, the part after the alignment: the calls it makes and
\* the tensors it links.
Adjust(f, step) ==
  IF step.type = "Assign"
  THEN [calls |-> <<>>,
        links |-> IF Len(step.outputs) = 1
                  THEN {<<step.inputs[1], step.outputs[1]>>} ELSE {}]
  ELSE [calls |-> Requests(f, step, StepExpression(f, step), 0, 0), links |-> {}]

\* Tensor::SharedWith comparing the two shared_ pointers with each other
\* in its second test, so that two tensors backed by the same tensor, or by
\* none, count as sharing.
SharedWithSameTarget(shared, a, b) == shared[a] = b \/ shared[b] = shared[a]

\* Tensor::SharedWith on the table of the shared_ pointers.
SharedWith(shared, a, b) == shared[a] = b \/ shared[b] = a

\* The order of the steps of the compiled cell: the operations in the
\* order of the flow, each after the producers of its inputs.  (Operations
\* on a cycle come last, in the order of the flow.)
RECURSIVE StepOrderFrom(_, _)
StepOrderFrom(f, placed) ==
  LET left  == {k \in 1..Len(f.ops) : f.ops[k].id \notin Range(placed)}
      ready == {k \in left :
                  \A i \in 1..Len(f.ops[k].inputs) :
                     Producer(f, f.ops[k].inputs[i]) \in {0} \cup Range(placed)}
  IN IF left = {} THEN placed
     ELSE StepOrderFrom(f, Append(placed, f.ops[MinOf(IF ready = {} THEN left ELSE ready)].id))

StepOrder(f) == StepOrderFrom(f, <<>>)

\* The live range of a tensor in the step order: from the first step that
\* reads or writes it to the last step that reads it.
LiveRange(f, v) ==
  LET order == StepOrder(f)
      uses  == {n \in 1..Len(order) :
                  IsInput(GetOp(f, order[n]), v) \/ IsOutput(GetOp(f, order[n]), v)}
      reads == {n \in 1..Len(order) : IsInput(GetOp(f, order[n]), v)}
  IN IF uses = {} THEN {}
     ELSE {n \in 1..Len(order) : MinOf(uses) <= n /\ n <= MaxOf(reads \cup {MinOf(uses)})}

\* The network is built from the flow the pipeline ended with.
Compile ==
  /\ pc = "done"
  /\ run = 2
  /\ pc' = "adjust"
  /\ cur' = [at |-> 1, shared |-> Table([v \in DOMAIN flow.vars |-> 0]), links |-> {}]
  /\ last' = [kind |-> "compile", loop |-> pc, pre |-> flow]
  /\ UNCHANGED <<flow, flow0, settled, changed, run, cmp>>
  /\ UNCHANGED outside

Adjusted(step, supported, a) ==
  /\ cur' = [at     |-> cur.at + 1,
             shared |-> Share(cur.shared, step, a.calls, 1),
             links  |-> cur.links \cup a.links]
  /\ last' = [kind |-> "adjust", loop |-> pc, op |-> step.id, supported |-> supported,
              calls |-> a.calls, before |-> cur.shared, pre |-> flow]

\* The next step is adjusted by its kernel; a step that no kernel of this
\* library supports is left as it is.
AdjustStep ==
  /\ pc = "adjust"
  /\ cur.at <= Len(flow.ops)
  /\ LET step == flow.ops[cur.at]
     IN IF Supports(flow, step)
        THEN \E a \in {Adjust(flow, step)} : Adjusted(step, TRUE, a)
        ELSE Adjusted(step, FALSE, [calls |-> <<>>, links |-> {}])
  /\ UNCHANGED <<flow, flow0, settled, pc, changed, run, cmp>>
  /\ UNCHANGED outside

\* Every step is adjusted.
Compiled ==
  /\ pc = "adjust"
  /\ cur.at > Len(flow.ops)
  /\ pc' = "compiled"
  /\ last' = [kind |-> "compiled", loop |-> pc, pre |-> flow]
  /\ UNCHANGED <<flow, flow0, settled, cur, changed, run, cmp>>
  /\ UNCHANGED outside


Next ==
  \/ PairStep
  \/ SiblingStep
  \/ ExprRestart
  \/ UnusedStep
  \/ DivStep
  \/ RsqrtStep
  \/ AddNegStep
  \/ LogicStep
  \/ AndNotStep
  \/ NextLoop
  \/ NextPass
  \/ Finish
  \/ Rerun
  \/ Compile
  \/ AdjustStep
  \/ Compiled

Spec == Init /\ [][Next]_vars

(***************************************************************************)
(* Record files (sling/file/recordio.cc).  A file is its header followed   *)
(* by records; a record on disk is a header (type, varint record size,     *)
(* varint key size), the key and the value.  The record size of a filler   *)
(* record includes its header.  Offsets and sizes are counted in bytes.    *)
(***************************************************************************)
\* sizeof(FileHeader), the hdrlen of a file written by RecordWriter.
HeaderLen == 48

\* RecordFile::MAX_HEADER_LEN and MAX_SKIP_LEN.
MAX_HEADER_LEN == 31
MAX_SKIP_LEN == 12

\* Number of bytes of Varint::Encode64(n).
VarintLen(n) == IF n < 128 THEN 1 ELSE IF n < 16384 THEN 2 ELSE 3

DataRecord(key, value) == [type |-> "DATA", key |-> key, value |-> value]
FillerRecord(size) == [type |-> "FILLER", key |-> 0, value |-> size]

\* Header::record_size of a record.
RecordSize(rec) == rec.key + rec.value

\* RecordFile::WriteHeader: the number of bytes of the header.
HeaderSize(rec) ==
  IF rec.type = "FILLER" THEN 1 + VarintLen(rec.value)
  ELSE 1 + VarintLen(RecordSize(rec)) + VarintLen(rec.key)

\* Bytes of the file from the start of a record to the start of the next.
DiskSize(rec) ==
  IF rec.type = "FILLER" THEN rec.value ELSE HeaderSize(rec) + RecordSize(rec)

RECURSIVE StartOf(_, _)
StartOf(file, k) == IF k = 1 THEN HeaderLen ELSE StartOf(file, k - 1) + DiskSize(file[k - 1])

FileSize(file) == StartOf(file, Len(file) + 1)

\* The record that starts at offset b of the file, 0 when none does.
RecordAt(file, b) ==
  LET K == {k \in 1..Len(file) : StartOf(file, k) = b}
  IN IF K = {} THEN 0 ELSE MinOf(K)

\* The files read: up to MaxRecords records, the last one no filler.  A
\* reader is followed for MaxReaderCalls calls.
MaxRecords == 3
MaxReaderCalls == 4
BufferSize == 64
RecordKinds ==
  {DataRecord(2, 10), DataRecord(0, 70), DataRecord(3, 130), FillerRecord(20)}

Files ==
  {f \in UNION {[1..n -> RecordKinds] : n \in 1..MaxRecords} : f[Len(f)].type # "FILLER"}

NoRecord == [position |-> 0, index |-> 0]

(***************************************************************************)
(* RecordReader.  The input buffer holds the avail bytes of the file that  *)
(* end at the position fpos of the file object; position is position_.     *)
(* record is the record the last Read returned: the position it reports    *)
(* and the record of the file it was read from.  sought is the target of   *)
(* the last Seek that named another position than the current one, until   *)
(* the next Read or Skip; after is its value for the Read just done.       *)
(***************************************************************************)
\* RecordReader::Fill.
Fill(r, needed) ==
  LET requested == IF r.readahead THEN r.capacity - r.avail ELSE needed - r.avail
      left      == FileSize(r.file) - r.fpos
      read      == IF requested <= 0 \/ left <= 0 THEN 0
                   ELSE IF requested < left THEN requested ELSE left
  IN [r EXCEPT !.avail = @ + read, !.fpos = @ + read]

\* RecordReader::RecordReader: the buffer is filled and the file header
\* consumed.  (readahead is the initial value of readahead_.)
NewReader(file, readahead) ==
  LET r == Fill([file |-> file, position |-> 0, size |-> FileSize(file),
                 readahead |-> readahead, capacity |-> BufferSize, avail |-> 0,
                 fpos |-> 0, record |-> NoRecord, status |-> "OK", op |-> "new",
                 sought |-> 0, after |-> 0, calls |-> 0],
                HeaderLen)
  IN [r EXCEPT !.avail = @ - HeaderLen, !.position = HeaderLen]

\* RecordReader::Skip.
Skip(r, n) ==
  IF n = 0 THEN r
  ELSE IF n >= 0 /\ n <= r.avail
  THEN [r EXCEPT !.position = @ + n, !.avail = @ - n]
  ELSE [r EXCEPT !.position = @ + n, !.avail = 0, !.readahead = FALSE,
                 !.fpos = @ + (n - r.avail)]

\* RecordReader::Seek.  position_ is set before the offset is computed, so
\* the offset is 0.
Seek(r, p) ==
  LET pos == IF p = 0 THEN HeaderLen ELSE p
      offset == pos - pos
  IN IF pos = r.position THEN r
     ELSE IF offset >= 0 /\ offset <= r.avail
     THEN [r EXCEPT !.position = pos, !.avail = @ - offset]
     ELSE [r EXCEPT !.position = pos, !.avail = 0, !.readahead = FALSE, !.fpos = pos]

\* RecordReader::Read.  The header is parsed from the first unconsumed byte
\* of the buffer; when no record starts there the bytes parsed are no
\* header and the outcome is not defined.
RECURSIVE Read(_)
Read(r) ==
  LET r1 == IF r.avail < MAX_HEADER_LEN THEN Fill(r, MAX_HEADER_LEN) ELSE r
      k  == RecordAt(r1.file, r1.fpos - r1.avail)
  IN IF k = 0 THEN [r1 EXCEPT !.status = "undefined"]
     ELSE IF r1.file[k].type = "FILLER"
     THEN The({Read(r2) : r2 \in {Skip(r1, r1.file[k].value)}})
     ELSE LET hdrsize == HeaderSize(r1.file[k])
              size    == RecordSize(r1.file[k])
              r2 == [r1 EXCEPT !.avail = @ - hdrsize,
                               !.record = [position |-> r1.position, index |-> k],
                               !.position = @ + hdrsize]
              r3 == IF size > r2.avail
                    THEN Fill([r2 EXCEPT !.capacity = IF size > @ THEN size ELSE @], size)
                    ELSE r2
          IN IF size > r3.avail THEN [r3 EXCEPT !.status = "Record truncated"]
             ELSE [r3 EXCEPT !.avail = @ - size, !.position = @ + size,
                             !.readahead = TRUE]

\* The offsets a caller skips to: the starts of the records and the end of
\* the file.
Offsets(file) == {StartOf(file, k) : k \in 1..(Len(file) + 1)}

\* The positions a caller seeks to: those of the records that are no
\* fillers, as the writer and the index report them.
Positions(file) == {StartOf(file, k) : k \in {j \in 1..Len(file) : file[j].type # "FILLER"}}

ReaderInit ==
  /\ recReader \in {NewReader(f, ra) : f \in Files, ra \in BOOLEAN}
  /\ flow = Idle /\ flow0 = Idle /\ settled = Idle /\ pc = Idle /\ cur = Idle
  /\ changed = Idle /\ run = Idle /\ last = Idle /\ cmp = Idle
  /\ cell = Idle /\ recWriter = Idle /\ recIndex = Idle
  /\ finder = Idle /\ phrases = Idle /\ threads = Idle

\* A call of Read by a caller that has found Done() false.
ReadCall ==
  /\ recReader.status = "OK"
  /\ recReader.position < recReader.size
  /\ recReader.calls < MaxReaderCalls
  /\ recReader' = [Read(recReader) EXCEPT !.op = "Read", !.sought = 0,
                                          !.after = recReader.sought,
                                          !.calls = @ + 1]
  /\ UNCHANGED <<pipeline, cell, recWriter, recIndex, finder, phrases, threads>>

\* A call of Skip to a later offset.
SkipCall ==
  /\ recReader.status = "OK"
  /\ recReader.calls < MaxReaderCalls
  /\ \E o \in Offsets(recReader.file) :
       /\ o > recReader.position
       /\ recReader' = [Skip(recReader, o - recReader.position)
                          EXCEPT !.op = "Skip", !.sought = 0, !.after = 0,
                                 !.calls = @ + 1]
  /\ UNCHANGED <<pipeline, cell, recWriter, recIndex, finder, phrases, threads>>

\* A call of Seek to the position of a record, or of Seek(0).
SeekCall ==
  /\ recReader.status = "OK"
  /\ recReader.calls < MaxReaderCalls
  /\ \E o \in {0} \cup Positions(recReader.file) :
       recReader' = [Seek(recReader, o)
                       EXCEPT !.op = "Seek", !.after = 0, !.calls = @ + 1,
                              !.sought = IF (IF o = 0 THEN HeaderLen ELSE o)
                                              = recReader.position
                                         THEN recReader.sought
                                         ELSE IF o = 0 THEN HeaderLen ELSE o]
  /\ UNCHANGED <<pipeline, cell, recWriter, recIndex, finder, phrases, threads>>

ReaderNext == ReadCall \/ SkipCall \/ SeekCall

ReaderSpec == ReaderInit /\ [][ReaderNext]_vars

(***************************************************************************)
(* RecordWriter.  position is position_, pending the number of bytes in    *)
(* the output buffer and fpos the offset of the file object, where the     *)
(* buffer is written by the next Flush.  file lists the records in the     *)
(* order they were written: the offset of the first byte, the number of    *)
(* bytes written for it (for a filler: its header) and its record size.    *)
(* fit describes the last Write: the bytes used in the chunk when it was   *)
(* called and the number of fillers it wrote.                              *)
(***************************************************************************)
MaxWrites == 4
ChunkSizes == {49, 64, 96, 200}
KeySizes == {0, 2}
ValueSizes == {3, 10, 40}

OnDisk(rec, start) ==
  [type |-> rec.type, start |-> start, size |-> RecordSize(rec),
   bytes |-> IF rec.type = "FILLER" THEN HeaderSize(rec) ELSE DiskSize(rec)]

\* RecordWriter::RecordWriter for a new file: the file header is put into
\* the output buffer.
NewWriter(chunk) ==
  [chunk |-> chunk, position |-> HeaderLen, pending |-> HeaderLen,
   capacity |-> BufferSize, fpos |-> 0, file |-> <<>>, calls |-> 0,
   fit |-> [used |-> 0, fillers |-> 0]]

\* RecordWriter::Flush.
Flush(w) == [w EXCEPT !.fpos = @ + w.pending, !.pending = 0]

\* RecordBuffer::Ensure: the buffer grows when it has not room for n bytes.
Ensure(w, n) ==
  [w EXCEPT !.capacity = IF w.pending + n > @ THEN w.pending + n ELSE @]

\* RecordWriter::Write, lines 630-659: the filler record before a record
\* that may cross the chunk boundary.
Filler(w, maxsize) ==
  LET used == w.position % w.chunk
  IN IF w.chunk # 0 /\ used + maxsize + MAX_SKIP_LEN > w.chunk
     THEN LET filler == FillerRecord(w.chunk - used)
              w1 == Ensure(w, MAX_HEADER_LEN)
              w2 == [w1 EXCEPT !.file = Append(@, OnDisk(filler, w.position)),
                               !.pending = @ + HeaderSize(filler),
                               !.fit.fillers = 1]
              w3 == Flush(w2)
          IN [w3 EXCEPT !.position = @ + RecordSize(filler),
                        !.fpos = w.position + RecordSize(filler)]
     ELSE w

\* RecordWriter::Write of an uncompressed record.
Write(w, rec) ==
  LET maxsize == MAX_HEADER_LEN + rec.key + rec.value
      w1 == IF maxsize > w.capacity - w.pending THEN Flush(w) ELSE w
      w2 == [w1 EXCEPT !.fit = [used |-> IF w.chunk = 0 THEN 0
                                        ELSE w.position % w.chunk,
                               fillers |-> 0]]
      w3 == Filler(w2, maxsize)
      w4 == Ensure(w3, maxsize)
  IN [w4 EXCEPT !.file = Append(@, OnDisk(rec, w3.position)),
                !.pending = @ + DiskSize(rec),
                !.position = @ + DiskSize(rec)]

WriterInit ==
  /\ recWriter \in {NewWriter(c) : c \in ChunkSizes}
  /\ flow = Idle /\ flow0 = Idle /\ settled = Idle /\ pc = Idle /\ cur = Idle
  /\ changed = Idle /\ run = Idle /\ last = Idle /\ cmp = Idle
  /\ cell = Idle /\ recReader = Idle /\ recIndex = Idle
  /\ finder = Idle /\ phrases = Idle /\ threads = Idle

\* A call of Write with a record that passes the CHECK of line 634.
WriteCall ==
  /\ recWriter.calls < MaxWrites
  /\ \E k \in KeySizes, v \in ValueSizes :
       /\ MAX_HEADER_LEN + k + v + MAX_SKIP_LEN <= recWriter.chunk
       /\ recWriter' = [Write(recWriter, DataRecord(k, v)) EXCEPT !.calls = @ + 1]
  /\ UNCHANGED <<pipeline, cell, recReader, recIndex, finder, phrases, threads>>

\* A call of Flush.
FlushCall ==
  /\ recWriter.pending > 0
  /\ recWriter' = Flush(recWriter)
  /\ UNCHANGED <<pipeline, cell, recReader, recIndex, finder, phrases, threads>>

WriterNext == WriteCall \/ FlushCall

WriterSpec == WriterInit /\ [][WriterNext]_vars

(***************************************************************************)
(* Index pages.  A page is the sequence of the fingerprints of its         *)
(* entries, sorted; entry i of the source is element i + 1.                *)
(***************************************************************************)
MaxPageSize == 4
Fingerprints == 1..3

SortedPages ==
  {p \in UNION {[1..n -> Fingerprints] : n \in 0..MaxPageSize} :
     \A i \in 1..(Len(p) - 1) : p[i] <= p[i + 1]}

\* IndexPage::Find, the loop of lines 111-120: lo and hi when it is left.
RECURSIVE Bisect(_, _, _, _)
Bisect(entries, fp, lo, hi) ==
  IF lo < hi
  THEN LET mid == (lo + hi) \div 2
       IN IF entries[mid + 1] > fp THEN Bisect(entries, fp, lo, mid - 1)
          ELSE IF mid < hi /\ entries[mid + 2] < fp THEN Bisect(entries, fp, mid + 1, hi)
          ELSE <<lo, hi>>
  ELSE <<lo, hi>>

\* IndexPage::Find, the loop of line 121.
RECURSIVE Forward(_, _, _, _)
Forward(entries, fp, lo, hi) ==
  IF lo < hi /\ entries[lo + 2] < fp THEN Forward(entries, fp, lo + 1, hi) ELSE lo

\* IndexPage::Find going right when the next entry is not greater than fp.
PageFindPastEqual(entries, fp) ==
  LET b == Bisect(entries, fp, 0, Len(entries) - 1)
  IN IF b[1] < b[2] /\ entries[b[1] + 2] <= fp
     THEN Forward(entries, fp, b[1] + 1, b[2]) ELSE b[1]

\* IndexPage::Find.
PageFind(entries, fp) ==
  LET b == Bisect(entries, fp, 0, Len(entries) - 1)
  IN Forward(entries, fp, b[1], b[2])

\* The loop of RecordIndex::Lookup over a page, lines 385-392: the entries
\* it compares with fp, from the entry Find returned up to the first entry
\* with a greater fingerprint.
RECURSIVE Scan(_, _, _)
Scan(entries, fp, l) ==
  IF l >= Len(entries) \/ entries[l + 1] > fp THEN {}
  ELSE {l} \cup Scan(entries, fp, l + 1)

FindInit ==
  /\ finder \in {[entries |-> p, fp |-> fp, pc |-> "call", found |-> 0, visited |-> {}] :
                   p \in SortedPages, fp \in 0..4}
  /\ flow = Idle /\ flow0 = Idle /\ settled = Idle /\ pc = Idle /\ cur = Idle
  /\ changed = Idle /\ run = Idle /\ last = Idle /\ cmp = Idle
  /\ cell = Idle /\ recReader = Idle /\ recWriter = Idle /\ recIndex = Idle
  /\ phrases = Idle /\ threads = Idle

\* The call page->Find(fp).
FindCall ==
  /\ finder.pc = "call"
  /\ finder' = [finder EXCEPT !.pc = "found", !.found = PageFind(finder.entries, finder.fp)]
  /\ UNCHANGED <<pipeline, cell, recReader, recWriter, recIndex, phrases, threads>>

\* The scan of the page from the entry found.
ScanCall ==
  /\ finder.pc = "found"
  /\ finder' = [finder EXCEPT !.pc = "scanned",
                              !.visited = Scan(finder.entries, finder.fp, finder.found)]
  /\ UNCHANGED <<pipeline, cell, recReader, recWriter, recIndex, phrases, threads>>

FindNext == FindCall \/ ScanCall

FindSpec == FindInit /\ [][FindNext]_vars

(***************************************************************************)
(* The page cache of RecordIndex.  A page object is [id, position, lru]:   *)
(* id tells the objects apart (one per new IndexPage), freed is the set of *)
(* the objects deleted.  What a page holds is what the reader returned for *)
(* its position, so an entry of a page may name any position.              *)
(***************************************************************************)
MaxFetches == 5
PagePositions == 1..4
CacheOptions == {1, 2, 3}

\* A constructor that takes options.index_cache_size as it is.
CacheSizeAsGiven(index_cache_size) == index_cache_size

\* RecordIndex::RecordIndex, line 362.
CacheSize(index_cache_size) == IF index_cache_size > 2 THEN index_cache_size ELSE 2

\* access(p): the page is stamped with the epoch, which advances.
Access(x, id) ==
  [x EXCEPT !.cache = List([i \in DOMAIN x.cache |->
                              IF x.cache[i].id = id
                              THEN [x.cache[i] EXCEPT !.lru = x.epoch] ELSE x.cache[i]]),
            !.epoch = x.epoch + 1]

\* The loop of lines 426-429: the first page with the smallest stamp.
RECURSIVE OldestFrom(_, _, _)
OldestFrom(cache, oldest, i) ==
  IF i > Len(cache) THEN oldest
  ELSE OldestFrom(cache, IF cache[i].lru < cache[oldest].lru THEN i ELSE oldest, i + 1)

Oldest(cache) == OldestFrom(cache, 1, 2)

\* RecordIndex::GetIndexPage: the index after the call, with the page
\* returned in page and the page deleted, if any, in evicted.
GetIndexPage(x, position) ==
  LET hits == {i \in DOMAIN x.cache : x.cache[i].position = position}
  IN IF hits # {}
     THEN [Access(x, x.cache[MinOf(hits)].id) EXCEPT
             !.page = x.cache[MinOf(hits)].id, !.evicted = 0]
     ELSE LET page == [id |-> x.nextid, position |-> position, lru |-> x.epoch]
              y == [x EXCEPT !.epoch = x.epoch + 1, !.nextid = x.nextid + 1,
                             !.page = page.id, !.evicted = 0]
          IN IF Len(x.cache) < x.cache_size
             THEN [y EXCEPT !.cache = Append(x.cache, page)]
             ELSE LET oldest == Oldest(x.cache)
                  IN [y EXCEPT !.cache = List([i \in DOMAIN x.cache |->
                                                 IF i = oldest THEN page ELSE x.cache[i]]),
                               !.freed = x.freed \cup {x.cache[oldest].id},
                               !.evicted = x.cache[oldest].id]

NewIndex(index_cache_size) ==
  [cache_size |-> CacheSize(index_cache_size), cache |-> <<>>, epoch |-> 0, nextid |-> 1,
   freed |-> {}, page |-> 0, evicted |-> 0, dir |-> 0, pc |-> "idle", fetches |-> 0,
   kind |-> "new", before |-> <<>>]

IndexInit ==
  /\ recIndex \in {NewIndex(n) : n \in CacheOptions}
  /\ flow = Idle /\ flow0 = Idle /\ settled = Idle /\ pc = Idle /\ cur = Idle
  /\ changed = Idle /\ run = Idle /\ last = Idle /\ cmp = Idle
  /\ cell = Idle /\ recReader = Idle /\ recWriter = Idle /\ finder = Idle
  /\ phrases = Idle /\ threads = Idle

IndexFrame == UNCHANGED <<pipeline, cell, recReader, recWriter, finder, phrases, threads>>

\* Lookup is called on an index with a root page.
LookupCall ==
  /\ recIndex.pc = "idle"
  /\ recIndex' = [recIndex EXCEPT !.pc = "root", !.kind = "call", !.evicted = 0]
  /\ IndexFrame

\* Line 381: the directory page of a root entry is fetched.
FetchDir ==
  /\ recIndex.pc = "root"
  /\ recIndex.fetches < MaxFetches
  /\ \E position \in PagePositions :
       LET x == GetIndexPage(recIndex, position)
       IN recIndex' = [x EXCEPT !.dir = x.page, !.pc = "dir", !.kind = "dir",
                                !.before = recIndex.cache,
                                !.fetches = recIndex.fetches + 1]
  /\ IndexFrame

\* Line 384: the directory page is accessed and the leaf page of one of its
\* entries is fetched; the loop over the leaf touches no page.
FetchLeaf ==
  /\ recIndex.pc = "dir"
  /\ recIndex.fetches < MaxFetches
  /\ \E position \in PagePositions :
       LET a == Access(recIndex, recIndex.dir)
           x == GetIndexPage(a, position)
       IN recIndex' = [x EXCEPT !.kind = "leaf", !.before = a.cache,
                                !.fetches = recIndex.fetches + 1]
  /\ IndexFrame

\* The loop over the directory page ends: the next root entry.
NextDir ==
  /\ recIndex.pc = "dir"
  /\ recIndex' = [recIndex EXCEPT !.pc = "root", !.dir = 0, !.kind = "next", !.evicted = 0]
  /\ IndexFrame

\* Lookup returns, from any of its loops.
LookupReturn ==
  /\ recIndex.pc \in {"root", "dir"}
  /\ recIndex' = [recIndex EXCEPT !.pc = "idle", !.dir = 0, !.kind = "return", !.evicted = 0]
  /\ IndexFrame

IndexNext == LookupCall \/ FetchDir \/ FetchLeaf \/ NextDir \/ LookupReturn

IndexSpec == IndexInit /\ [][IndexNext]_vars

(***************************************************************************)
(* The phrase cache of the phrase structure annotator, used by several     *)
(* annotator threads.  A slot is [id, text, annotations, sticky]; the      *)
(* annotations of a CachePhrase call are named by the number of the call,  *)
(* and idBy and textBy name the call that wrote id and text (0: the slot   *)
(* as cache_.resize made it).                                              *)
(***************************************************************************)
MaxPhraseCalls == 3
PhraseCacheSize == 2
Threads == 1..2
PhraseIds == {"a", "b"}
PhraseTexts == {"x", "y"}

\* Fingerprint32 of the ids and texts, up to the cache size.
Fingerprint32(str) == IF str \in {"a", "x"} THEN 0 ELSE 1

\* Hash(id, text) % cache_size_, as an index from 1: the low bit of
\* fp1 ^ fp2.
Slot(id, text) == ((Fingerprint32(id) + Fingerprint32(text)) % PhraseCacheSize) + 1

EmptyPhrase == [id |-> "", text |-> "", annotations |-> 0, sticky |-> FALSE,
                idBy |-> 0, textBy |-> 0]

IdleThread == [pc |-> "idle", op |-> "none", id |-> "", text |-> "", sticky |-> FALSE,
               call |-> 0, found |-> FALSE, seen |-> EmptyPhrase, got |-> 0]

\* A lock that any thread takes at any time.
Unlocked(mu) == TRUE

\* MutexLock lock(&mu_): the lock is taken when no thread holds it.
Lockable(mu) == mu = 0

PhraseInit ==
  /\ phrases = [cache |-> [s \in 1..PhraseCacheSize |-> EmptyPhrase], mu |-> 0, calls |-> 0]
  /\ threads = [t \in Threads |-> IdleThread]
  /\ flow = Idle /\ flow0 = Idle /\ settled = Idle /\ pc = Idle /\ cur = Idle
  /\ changed = Idle /\ run = Idle /\ last = Idle /\ cmp = Idle
  /\ cell = Idle /\ recReader = Idle /\ recWriter = Idle /\ recIndex = Idle
  /\ finder = Idle

PhraseFrame == UNCHANGED <<pipeline, cell, recReader, recWriter, recIndex, finder>>

\* A thread calls LookupPhrase(id, text, &annotations).
LookupPhraseCall(t) ==
  /\ threads[t].pc = "idle"
  /\ \E id \in PhraseIds, text \in PhraseTexts :
       threads' = [threads EXCEPT ![t] =
                     [IdleThread EXCEPT !.pc = "lock", !.op = "lookup", !.id = id, !.text = text]]
  /\ UNCHANGED phrases
  /\ PhraseFrame

\* A thread calls CachePhrase(id, text, annotations, sticky).
CachePhraseCall(t) ==
  /\ threads[t].pc = "idle"
  /\ phrases.calls < MaxPhraseCalls
  /\ \E id \in PhraseIds, text \in PhraseTexts, sticky \in BOOLEAN :
       threads' = [threads EXCEPT ![t] =
                     [IdleThread EXCEPT !.pc = "lock", !.op = "cache", !.id = id, !.text = text,
                                        !.sticky = sticky, !.call = phrases.calls + 1]]
  /\ phrases' = [phrases EXCEPT !.calls = phrases.calls + 1]
  /\ PhraseFrame

\* Lines 222 and 233.
Lock(t) ==
  /\ threads[t].pc = "lock"
  /\ Lockable(phrases.mu)
  /\ phrases' = [phrases EXCEPT !.mu = t]
  /\ threads' = [threads EXCEPT ![t].pc = IF threads[t].op = "lookup" THEN "compare" ELSE "test"]
  /\ PhraseFrame

\* Lines 223-224: the slot is compared with the phrase asked for; if it
\* differs LookupPhrase returns false and the lock is released.
Compare(t) ==
  /\ threads[t].pc = "compare"
  /\ LET phrase == phrases.cache[Slot(threads[t].id, threads[t].text)]
         same == threads[t].id = phrase.id /\ threads[t].text = phrase.text
     IN /\ threads' = [threads EXCEPT ![t].seen = phrase,
                                      ![t].pc = IF same THEN "copy" ELSE "idle"]
        /\ phrases' = IF same THEN phrases ELSE [phrases EXCEPT !.mu = 0]
  /\ PhraseFrame

\* Lines 225-226: the annotations are copied, LookupPhrase returns true.
Copy(t) ==
  /\ threads[t].pc = "copy"
  /\ threads' = [threads EXCEPT
                   ![t].got = phrases.cache[Slot(threads[t].id, threads[t].text)].annotations,
                   ![t].found = TRUE, ![t].pc = "idle"]
  /\ phrases' = [phrases EXCEPT !.mu = 0]
  /\ PhraseFrame

\* Lines 235-242: a sticky slot makes CachePhrase return false.
TestSticky(t) ==
  /\ threads[t].pc = "test"
  /\ LET sticky == phrases.cache[Slot(threads[t].id, threads[t].text)].sticky
     IN /\ threads' = [threads EXCEPT ![t].pc = IF sticky THEN "idle" ELSE "id"]
        /\ phrases' = IF sticky THEN [phrases EXCEPT !.mu = 0] ELSE phrases
  /\ PhraseFrame

\* Line 243.
WriteId(t) ==
  /\ threads[t].pc = "id"
  /\ phrases' = [phrases EXCEPT !.cache[Slot(threads[t].id, threads[t].text)].id = threads[t].id,
                                !.cache[Slot(threads[t].id, threads[t].text)].idBy = threads[t].call]
  /\ threads' = [threads EXCEPT ![t].pc = "text"]
  /\ PhraseFrame

\* Line 244.
WriteText(t) ==
  /\ threads[t].pc = "text"
  /\ phrases' = [phrases EXCEPT
                   !.cache[Slot(threads[t].id, threads[t].text)].text = threads[t].text,
                   !.cache[Slot(threads[t].id, threads[t].text)].textBy = threads[t].call]
  /\ threads' = [threads EXCEPT ![t].pc = "annotations"]
  /\ PhraseFrame

\* Line 245.
WriteAnnotations(t) ==
  /\ threads[t].pc = "annotations"
  /\ phrases' = [phrases EXCEPT
                   !.cache[Slot(threads[t].id, threads[t].text)].annotations = threads[t].call]
  /\ threads' = [threads EXCEPT ![t].pc = "sticky"]
  /\ PhraseFrame

\* Lines 246-247: sticky is written, CachePhrase returns true.
WriteSticky(t) ==
  /\ threads[t].pc = "sticky"
  /\ phrases' = [phrases EXCEPT
                   !.cache[Slot(threads[t].id, threads[t].text)].sticky = threads[t].sticky,
                   !.mu = 0]
  /\ threads' = [threads EXCEPT ![t].found = TRUE, ![t].pc = "idle"]
  /\ PhraseFrame

PhraseNext ==
  \E t \in Threads :
    \/ LookupPhraseCall(t)
    \/ CachePhraseCall(t)
    \/ Lock(t)
    \/ Compare(t)
    \/ Copy(t)
    \/ TestSticky(t)
    \/ WriteId(t)
    \/ WriteText(t)
    \/ WriteAnnotations(t)
    \/ WriteSticky(t)

PhraseSpec == PhraseInit /\ [][PhraseNext]_vars

(***************************************************************************)
(* The instance block of a cell: the planner's assignment of offsets, with *)
(* the runtime prefix at offset 0, the task structures behind it and the   *)
(* tensors behind those, each at its byte alignment, in any order.         *)
(***************************************************************************)
MaxTasks == 2
MaxTensors == 3

\* sizeof(Task): two function pointers, a state pointer, two int32.
TaskSize == 32

\* sizeof(void *), the space of a reference tensor.
PointerSize == 8

\* Runtime::ExtraInstanceData: 0, or sizeof(CUDAInstance) for CUDA.
ExtraInstanceData == {0, 16}

CellTensor(ref, shared, constant, placement, size, byte_alignment) ==
  [ref |-> ref, shared |-> shared, constant |-> constant, placement |-> placement,
   size |-> size, byte_alignment |-> byte_alignment, offset |-> -1]

TensorKinds ==
  { CellTensor(FALSE, 0, FALSE, "HOST", 4, 4),
    CellTensor(FALSE, 0, FALSE, "EVERYWHERE", 12, 16),
    CellTensor(FALSE, 0, FALSE, "HOST", 64, 32),
    CellTensor(TRUE, 0, FALSE, "HOST", 64, 8),
    CellTensor(FALSE, 1, FALSE, "HOST", 4, 4),
    CellTensor(FALSE, 0, TRUE, "HOST", 12, 4),
    CellTensor(FALSE, 0, FALSE, "DEVICE", 4, 4) }

\* Tensor::space: a reference takes the space of one pointer.
Space(t) == IF t.ref THEN PointerSize ELSE t.size

OnHost(t) == t.placement \in {"HOST", "EVERYWHERE"}

\* The tensors that get storage of their own in the host block.
Allocated(t) == OnHost(t) /\ ~t.constant /\ t.shared = 0

\* A shared tensor names a tensor with storage of its own and of its size.
WellShared(ts) ==
  \A i \in DOMAIN ts :
    ts[i].shared # 0 =>
      /\ ts[i].shared \in DOMAIN ts /\ ts[i].shared # i
      /\ Allocated(ts[ts[i].shared]) /\ ~ts[ts[i].shared].ref
      /\ ts[ts[i].shared].size = ts[i].size

\* An offset placed without regard to the alignment.
Unaligned(offset, alignment) == offset

\* The next offset at or behind offset that is a multiple of alignment.
Align(offset, alignment) == ((offset + alignment - 1) \div alignment) * alignment

PlanInit ==
  /\ cell \in {[pc |-> "prefix", prefix |-> p, ntasks |-> n, tasks |-> <<>>, tensors |-> ts,
                instance_size |-> 0] :
                 p \in ExtraInstanceData, n \in 0..MaxTasks,
                 ts \in {x \in UNION {[1..k -> TensorKinds] : k \in 1..MaxTensors} :
                           WellShared(x)}}
  /\ flow = Idle /\ flow0 = Idle /\ settled = Idle /\ pc = Idle /\ cur = Idle
  /\ changed = Idle /\ run = Idle /\ last = Idle /\ cmp = Idle
  /\ recReader = Idle /\ recWriter = Idle /\ recIndex = Idle /\ finder = Idle
  /\ phrases = Idle /\ threads = Idle

PlanFrame == UNCHANGED <<pipeline, recReader, recWriter, recIndex, finder, phrases, threads>>

\* The runtime prefix is reserved at offset 0.
ReservePrefix ==
  /\ cell.pc = "prefix"
  /\ cell' = [cell EXCEPT !.instance_size = cell.prefix, !.pc = "place"]
  /\ PlanFrame

\* The next task structure is placed and its offset stored.
PlaceTask ==
  /\ cell.pc = "place"
  /\ Len(cell.tasks) < cell.ntasks
  /\ cell' = [cell EXCEPT !.tasks = Append(cell.tasks, cell.instance_size),
                          !.instance_size = cell.instance_size + TaskSize]
  /\ PlanFrame

\* A tensor with storage of its own in the host block is placed at its
\* alignment.
PlaceTensor ==
  /\ cell.pc = "place"
  /\ Len(cell.tasks) = cell.ntasks
  /\ \E i \in DOMAIN cell.tensors :
       /\ Allocated(cell.tensors[i])
       /\ cell.tensors[i].offset = -1
       /\ LET at == Align(cell.instance_size,
                          IF cell.tensors[i].ref THEN PointerSize
                          ELSE cell.tensors[i].byte_alignment)
          IN cell' = [cell EXCEPT !.tensors[i].offset = at,
                                  !.instance_size = at + Space(cell.tensors[i])]
  /\ PlanFrame

\* The results are propagated: a shared tensor on the host has the offset
\* of the tensor it shares.
Propagate ==
  /\ cell.pc = "place"
  /\ Len(cell.tasks) = cell.ntasks
  /\ \A i \in DOMAIN cell.tensors : Allocated(cell.tensors[i]) => cell.tensors[i].offset # -1
  /\ cell' = [cell EXCEPT
                !.tensors = List([i \in DOMAIN cell.tensors |->
                              IF cell.tensors[i].shared # 0 /\ OnHost(cell.tensors[i])
                              THEN [cell.tensors[i] EXCEPT
                                      !.offset = cell.tensors[cell.tensors[i].shared].offset]
                              ELSE cell.tensors[i]]),
                !.pc = "planned"]
  /\ PlanFrame

PlanNext == ReservePrefix \/ PlaceTask \/ PlaceTensor \/ Propagate

PlanSpec == PlanInit /\ [][PlanNext]_vars

(***************************************************************************)
(* Properties.                                                             *)
(***************************************************************************)
\* The ops that read a variable written by op o.
Readers(f, o) ==
  {f.ops[k].id : k \in {k \in 1..Len(f.ops) :
                          Range(f.ops[k].inputs) \cap Range(GetOp(f, o).outputs) # {}}}

RECURSIVE Downstream(_, _, _)
Downstream(f, S, n) ==
  IF n = 0 \/ UNION {Readers(f, o) : o \in S} \subseteq S THEN S
  ELSE Downstream(f, S \cup UNION {Readers(f, o) : o \in S}, n - 1)

\* Op b reads, directly or through other ops, what op a writes.
Reaches(f, a, b) == b \in Downstream(f, Readers(f, a), Len(f.ops))

Acyclic(f) == \A o \in OpIds(f) : ~Reaches(f, o, o)

\* One of the ops a and b depends on the other through a third op.
Through(f, a, b) ==
  \E t \in OpIds(f) \ {a, b} :
     \/ Reaches(f, a, t) /\ Reaches(f, t, b)
     \/ Reaches(f, b, t) /\ Reaches(f, t, a)

\* C1: fusion never creates a cycle.  The flow is acyclic in every reachable
\* state, and a call Combine(first, second) in which one op depends on the
\* other through a third op is rejected and leaves the flow as it was.
FusionKeepsAcyclic ==
  /\ Acyclic(flow)
  /\ (last.kind = "combine" /\ Through(last.pre, last.first, last.second))
       => (~last.ok /\ flow = last.pre)

\* C1 witness: a Combine call that passes the merge and shape checks and is
\* rejected for the dependency through a third op.
RejectedForDependency ==
  /\ last.kind = "combine"
  /\ ~last.ok
  /\ Through(last.pre, last.first, last.second)
  /\ ~GetOp(last.pre, last.first).nomerge
  /\ ~GetOp(last.pre, last.second).nomerge
  /\ ShapesOk(last.pre, GetOp(last.pre, last.first), GetOp(last.pre, last.second))

\* A recipe in which the result of a reduction is an argument of an
\* operation.
ReductionConsumed(recipe) ==
  \E k \in 1..Len(recipe), j \in 1..Len(recipe) :
     /\ recipe[k].type \in {"SUM", "PRODUCT", "MIN", "MAX", "ALL", "ANY", "COUNT"}
     /\ recipe[k].result \in Range(recipe[j].args)

\* The flows s = Sum(x); y = Add(s, k); z = Mul(y, x).
SumAddMul(f) == Len(f.ops) = 3 /\ f.ops[1].type = "Sum" /\ f.ops[3].type = "Mul"

\* C2: reduction guard.  No recipe of a reachable flow uses the result of a
\* reduction as an argument, a Combine call whose merged expression would do
\* so changes nothing, and in s = Sum(x); y = Add(s, k); z = Mul(y, x) the
\* Sum stays an op of its own.
ReductionGuard ==
  /\ \A k \in 1..Len(flow.ops) : ~ReductionConsumed(flow.ops[k].expr)
  /\ (last.kind = "combine" /\ last.ok)
       => ~ReductionConsumed(
             AsRecipe(FusedExpr(last.pre, GetOp(last.pre, last.first),
                                GetOp(last.pre, last.second))))
  /\ SumAddMul(flow0) => (SumAddMul(flow) /\ flow.ops[1] = flow0.ops[1])

\* C2 witness: Combine(Sum, Add) passes every check before FuseExpressions
\* and is rejected there.
RejectedForReduction ==
  /\ last.kind = "combine"
  /\ ~last.ok
  /\ SumAddMul(flow0)
  /\ GetOp(last.pre, last.first).type = "Sum"
  /\ GetOp(last.pre, last.second).type = "Add"
  /\ ShapesOk(last.pre, GetOp(last.pre, last.first), GetOp(last.pre, last.second))
  /\ ~IndirectDependency(last.pre, GetOp(last.pre, last.first), GetOp(last.pre, last.second))

\* The flow variable an input reference (%i or #i) of a recipe of op denotes,
\* 0 when the op has no such input.
Denotes(op, ref) == IF ref.id + 1 <= Len(op.inputs) THEN op.inputs[ref.id + 1] ELSE 0

InputRefs(recipe) ==
  {<<k, j>> \in (1..Len(recipe)) \X (1..3) :
     j <= Len(recipe[k].args) /\ recipe[k].args[j].type \in {"INPUT", "CONST"}}

\* C3: assignment target invariant.  After a successful Combine whose second
\* op is an Assign the target is input 0 of the fused op, and every input
\* reference of the fused recipe, written as an input or as a constant,
\* denotes the flow variable it denoted before the swap of lines 582-598.
AssignTargetKept ==
  (last.kind = "combine" /\ last.ok /\ IsAssignmentOp(GetOp(last.pre, last.second)))
    => LET target == GetOp(last.pre, last.second).inputs[1]
           before == GetOp(PreSwap(last.pre, last.first, last.second, last.recipe),
                           last.first)
           after  == GetOp(flow, last.first)
       IN /\ after.inputs[1] = target
          /\ Len(after.expr) = Len(before.expr)
          /\ \A q \in InputRefs(before.expr) :
                Denotes(after, after.expr[q[1]].args[q[2]])
                  = Denotes(before, before.expr[q[1]].args[q[2]])

\* The value of a flow variable as a term over the variables that no op
\* produces: the term of the producer's recipe (InitExpression for an op
\* that is not fused yet) for the output slot the variable has.
Leaf(kind, id) == [op |-> kind, id |-> id, args |-> <<>>]

RECURSIVE Value(_, _, _)
RECURSIVE Term(_, _, _, _, _)
Term(f, op, recipe, ref, n) ==
  IF n = 0 THEN Leaf("?", 0)
  ELSE IF ref.type = "NUMBER" THEN Leaf("NUMBER", ref.id)
  ELSE IF ref.type \in {"INPUT", "CONST"}
  THEN (IF Denotes(op, ref) = 0 THEN Leaf("?", 0) ELSE Value(f, Denotes(op, ref), n - 1))
  ELSE LET K == {k \in 1..Len(recipe) : recipe[k].result = ref}
       IN IF K = {} THEN Leaf("?", 0)
          ELSE LET r == recipe[MaxOf(K)]
               IN [op   |-> r.type,
                   id   |-> 0,
                   args |-> List([j \in 1..Len(r.args) |->
                                    Term(f, op, recipe, r.args[j], n - 1)])]

Value(f, v, n) ==
  IF n = 0 \/ v \notin DOMAIN f.vars THEN Leaf("?", 0)
  ELSE IF Producer(f, v) = 0 THEN Leaf("var", v)
  ELSE LET op == GetOp(f, Producer(f, v))
       IN IF IsCalculateOp(op) \/ IsAssignmentOp(op)
          THEN Term(f, op, AsRecipe(InitExpression(f, op)),
                    EVar("OUTPUT", IndexOf(op.outputs, v) - 1), n)
          ELSE [op   |-> op.type,
                id   |-> IndexOf(op.outputs, v),
                args |-> List([j \in 1..Len(op.inputs) |-> Value(f, op.inputs[j], n - 1)])]

ValueOf(f, v) == Value(f, v, 2 * Cardinality(DOMAIN f.vars) + 2)

\* Op o is the only consumer of variable v, and v is no flow output.
Sole(f, v, o) == Consumers(f, v) = <<o>> /\ ~f.vars[v].out

\* The variables the ops a and b of a Combine write that are flow outputs or
\* have a consumer other than the two ops.
Observable(f, a, b) ==
  {v \in Range(GetOp(f, a).outputs) \cup Range(GetOp(f, b).outputs) :
     f.vars[v].out \/ Range(Consumers(f, v)) \ {a, b} # {}}

\* C4: observable intermediates are never removed.  The rewrites to Rsqrt, to
\* Sub, of a negated comparison and to AndNot are made only when the
\* intermediate variable has the rewritten op as its one consumer and is no
\* flow output, and leave the flow alone otherwise; a variable written by one
\* of the ops of a successful Combine that is a flow output or has another
\* consumer is still produced by the fused op, with the value it had.
IntermediatesKept ==
  /\ last.kind \in {"rsqrt", "addneg", "fold", "AndNot0", "AndNot1"}
       => /\ last.hit => Sole(last.pre, last.mid, last.op)
          /\ ~Sole(last.pre, last.mid, last.op) => flow = last.pre
  /\ (last.kind = "combine" /\ last.ok)
       => \A v \in Observable(last.pre, last.first, last.second) :
            /\ v \in DOMAIN flow.vars
            /\ Producer(flow, v) = last.first
            /\ ValueOf(flow, v) = ValueOf(last.pre, v)

\* C5: LogicTransformer::Transform terminates.  Every restart of the 'again'
\* loop follows a rewrite that takes an op out of the flow, so the loop
\* restarts at most as often as the flow had ops when the loop was entered.
LogicLoopEnds == pc = "Logic" => cur.restarts <= cur.n0

\* The operands of the And before the merge: x is the operand the Not
\* negates, y the other operand.
Negated(f, n) == GetOp(f, Producer(f, n)).inputs[1]
Other(f, logand, n) == RemoveFirst(GetOp(f, logand).inputs, n)[1]

\* C8 as the code has it: And(Not(x), y) and And(y, Not(x)) both become an
\* AndNot op with inputs (x, y), the negated operand x being input 0 and the
\* other operand y input 1.
AndNotNegatedFirst ==
  (last.kind \in {"AndNot0", "AndNot1"} /\ last.hit)
    => /\ GetOp(flow, last.op).type = "AndNot"
       /\ GetOp(flow, last.op).inputs
            = <<Negated(last.pre, last.mid), Other(last.pre, last.op, last.mid)>>

SecondOperandMerged ==
  /\ last.kind = "AndNot1"
  /\ last.hit
  /\ Negated(last.pre, last.mid) # Other(last.pre, last.op, last.mid)
  /\ AndNotNegatedFirst

\* C8 as stated: both become an AndNot op with inputs (y, x), the other
\* operand y being input 0 and the negated operand x input 1.
AndNotNegatedLast ==
  (last.kind \in {"AndNot0", "AndNot1"} /\ last.hit)
    => /\ GetOp(flow, last.op).type = "AndNot"
       /\ GetOp(flow, last.op).inputs
            = <<Other(last.pre, last.op, last.mid), Negated(last.pre, last.mid)>>

\* C9: folding a negation into a comparison is sound.  For the operand
\* values a and b the comparison the fold leaves has the truth value of the
\* negation of the comparison it replaces.
FoldSound ==
  cmp.type # "none"
    => Holds(OpType(cmp.folded), cmp.a, cmp.b) = ~Holds(OpType(cmp.type), cmp.a, cmp.b)

\* The OUTPUT ids the recipe assigns, and the operations that assign one.
OutputOps(recipe) == {k \in 1..Len(recipe) : recipe[k].result.type = "OUTPUT"}
OutputIds(recipe) == {recipe[k].result.id : k \in OutputOps(recipe)}

\* C10: output numbering after fusion.  After a successful Combine of two
\* ops the OUTPUT ids of the recipe of the fused op are pairwise distinct and
\* are 0..n-1, n being the number of outputs of the fused op (one for an
\* Assign, whose output is its target).
OutputsNumbered ==
  (last.kind = "combine" /\ last.ok /\ last.first # last.second)
    => LET fused == GetOp(flow, last.first)
           n == IF IsAssignmentOp(fused) THEN 1 ELSE Len(fused.outputs)
       IN /\ OutputIds(fused.expr) = 0..(n - 1)
          /\ Cardinality(OutputOps(fused.expr)) = n

\* The most calls of Combine a run of ExpressionTransformer::Transform makes
\* on a flow of n ops whose ops have at most three inputs: fewer than n calls
\* succeed, so the three loops make at most n + 2 passes, and a pass makes
\* at most one call for each input of each op.
CombineBound(n) == 3 * n * (n + 2)

\* C6: ExpressionTransformer::Transform terminates.  A successful Combine
\* takes exactly one op out of the flow, an 'again' loop starts over only
\* after a pass in which a Combine succeeded, and the number of calls of
\* Combine stays within a bound that depends on the number of ops at entry.
FusionTerminates ==
  /\ (last.kind = "combine" /\ last.ok) => Len(flow.ops) = Len(last.pre.ops) - 1
  /\ last.kind = "restart" => last.won >= 1
  /\ pc \in ExprLoops => /\ cur.wins = cur.n0 - Len(flow.ops)
                         /\ cur.calls <= CombineBound(cur.n0)

RestartedAfterFusions ==
  /\ last.kind = "restart"
  /\ last.won >= 2
  /\ FusionTerminates

\* C7: idempotent pipeline.  When the pipeline has run to its fixpoint and
\* is run again on the flow it left, no transformer reports a change and
\* the flow stays as it was left.
PipelineIdempotent == run = 2 => (flow = settled /\ ~changed)

SecondRunOver ==
  /\ run = 2
  /\ pc = "done"
  /\ settled # flow0
  /\ PipelineIdempotent

\* The recipe of a Calculate or Assign op: an Assign without expr attribute
\* has the recipe @0=Id(%1).
RecipeOf(op) == IF IsAssignmentOp(op) /\ op.expr = <<>> THEN AssignRecipe ELSE op.expr

\* Input position i (0-based) is an argument of an operation of the recipe.
Referenced(recipe, i) ==
  \E k \in 1..Len(recipe) :
     \E j \in 1..Len(recipe[k].args) :
        recipe[k].args[j].type \in {"INPUT", "CONST"} /\ recipe[k].args[j].id = i

\* The input positions of op that its recipe does not read, the target of an
\* Assign left out.
Unreferenced(op) ==
  {i \in 0..(Len(op.inputs) - 1) :
     ~Referenced(RecipeOf(op), i) /\ ~(IsAssignmentOp(op) /\ i = 0)}

\* C11: unused-input pruning is complete.  When the pipeline has reached its
\* fixpoint every input position of every Calculate op, and every input
\* position but 0 of every Assign op, is read by the recipe of the op, for
\* non-scalar, scalar and scalar constant inputs alike.
PruningComplete ==
  pc = "done"
    => \A k \in 1..Len(flow.ops) :
         flow.ops[k].type \in {"Calculate", "Assign"} => Unreferenced(flow.ops[k]) = {}

\* C12: sibling fusion pairs two distinct operations.  Every call of Combine
\* made by the loop over the variables (lines 498-523) has two different
\* operations as first and second, also when an operation reads the shared
\* variable more than once.
SiblingsDistinct ==
  (last.kind = "combine" /\ last.loop = "E3") => last.first # last.second

\* C13: Assign absorption precondition.  A successful Combine that has an
\* Assign as one of its ops has it as the second op; the first op is a
\* calculate op without the strict attribute that writes an input of the
\* Assign, and every output of the first op has exactly one usage, by the
\* Assign, and is no flow output.
AbsorbedWhenContained ==
  (/\ last.kind = "combine"
   /\ last.ok
   /\ \/ IsAssignmentOp(GetOp(last.pre, last.first))
      \/ IsAssignmentOp(GetOp(last.pre, last.second)))
    => LET first  == GetOp(last.pre, last.first)
           second == GetOp(last.pre, last.second)
       IN /\ IsAssignmentOp(second)
          /\ OpType(first.type) # "INVALID" \/ first.type = "Calculate"
          /\ ~first.strict
          /\ Range(first.outputs) \cap Range(second.inputs) # {}
          /\ \A v \in Range(first.outputs) : Sole(last.pre, v, second.id)

\* C13 witness: an op with two outputs, both read by the Assign only, is
\* merged into the Assign.
AbsorbedTwoOutputs ==
  /\ last.kind = "combine"
  /\ last.ok
  /\ IsAssignmentOp(GetOp(last.pre, last.second))
  /\ Len(GetOp(last.pre, last.first).outputs) = 2
  /\ GetOp(flow, last.first).type = "Assign"

\* The ops of a flow that carry the strict or the nomerge attribute.
Fenced(f) == {k \in 1..Len(f.ops) : f.ops[k].strict \/ f.ops[k].nomerge}

\* C14: an op that carries strict or nomerge takes no part in a successful
\* fusion.  In each of the three loops of ExpressionTransformer::Transform a
\* successful Combine has neither a strict nor a nomerge op as first or as
\* second, and every call of Combine leaves each such op in the flow with
\* its type, inputs and outputs.
FencedOpsKept ==
  last.kind = "combine"
    => /\ last.ok => \A o \in {last.first, last.second} :
                       ~GetOp(last.pre, o).strict /\ ~GetOp(last.pre, o).nomerge
       /\ \A k \in Fenced(last.pre) :
            LET op == last.pre.ops[k]
            IN /\ op.id \in OpIds(flow)
               /\ GetOp(flow, op.id).type = op.type
               /\ GetOp(flow, op.id).inputs = op.inputs
               /\ GetOp(flow, op.id).outputs = op.outputs

\* C14 witness: two ops are fused whose result a strict or nomerge op reads.
FusedBesideFenced ==
  /\ last.kind = "combine"
  /\ last.ok
  /\ \E k \in Fenced(last.pre) :
        Range(last.pre.ops[k].inputs)
          \cap (Range(GetOp(last.pre, last.first).outputs)
                \cup Range(GetOp(last.pre, last.second).outputs)) # {}
  /\ FencedOpsKept

\* C15: Div(x, c) to Mul(x, 1/c).  A step of DivTransformer turns a Div into
\* a Mul only when c, its second input, is a float single-element constant
\* with this Div as its one usage.  Afterwards the op is as it was but for
\* its type, c is as it was but for its data, which is a buffer the flow did
\* not have before and holds 1/c, every buffer the flow had holds what it
\* held, and the other ops and variables are as they were.
DivToMulFrame ==
  (/\ last.kind = "div"
   /\ GetOp(last.pre, last.op).type \in {"Div", "RealDiv"}
   /\ GetOp(flow, last.op).type = "Mul")
    => LET before == GetOp(last.pre, last.op)
           c      == before.inputs[2]
           old    == last.pre.vars[c]
           new    == flow.vars[c]
       IN /\ old.type = "float"
          /\ Elements(old) = 1
          /\ old.data # 0
          /\ Consumers(last.pre, c) = <<last.op>>
          /\ GetOp(flow, last.op) = [before EXCEPT !.type = "Mul"]
          /\ new = [old EXCEPT !.data = new.data]
          /\ new.data \in (DOMAIN flow.mem) \ (DOMAIN last.pre.mem)
          /\ flow.mem[new.data][1] * last.pre.mem[old.data][1]
               = flow.mem[new.data][2] * last.pre.mem[old.data][2]
          /\ \A a \in DOMAIN last.pre.mem : flow.mem[a] = last.pre.mem[a]
          /\ Len(flow.ops) = Len(last.pre.ops)
          /\ \A k \in 1..Len(flow.ops) :
                last.pre.ops[k].id # last.op => flow.ops[k] = last.pre.ops[k]
          /\ DOMAIN flow.vars = DOMAIN last.pre.vars
          /\ \A v \in (DOMAIN flow.vars) \ {c} : flow.vars[v] = last.pre.vars[v]

\* C15 witness: a Div by a constant whose buffer is the data of a second
\* constant has become a Mul.
DivByCoOwnedConstant ==
  /\ last.kind = "div"
  /\ GetOp(last.pre, last.op).type \in {"Div", "RealDiv"}
  /\ GetOp(flow, last.op).type = "Mul"
  /\ \E d \in DOMAIN last.pre.vars :
        /\ d # GetOp(last.pre, last.op).inputs[2]
        /\ last.pre.vars[d].data = last.pre.vars[GetOp(last.pre, last.op).inputs[2]].data
  /\ DivToMulFrame

\* The Div, and what the step of DivTransformer that handled it left.
DivBefore == GetOp(last.pre, last.op)
DivAfter == GetOp(flow, last.op)

\* Variable v of flow f is a float single-element constant.
FloatConstant(f, v) ==
  f.vars[v].type = "float" /\ Elements(f.vars[v]) = 1 /\ f.vars[v].data # 0

\* The first input of the Div is the float constant 1.0.
FirstIsOne ==
  FloatConstant(last.pre, DivBefore.inputs[1])
    /\ last.pre.mem[last.pre.vars[DivBefore.inputs[1]].data] = <<1, 1>>

\* The second input of the Div is a float constant that only the Div reads.
SecondIsOwnConstant ==
  FloatConstant(last.pre, DivBefore.inputs[2])
    /\ Consumers(last.pre, DivBefore.inputs[2]) = <<last.op>>

\* A step of DivTransformer has handled a Div or RealDiv with two inputs.
DivHandled ==
  last.kind = "div" /\ DivBefore.type \in {"Div", "RealDiv"} /\ Len(DivBefore.inputs) = 2

\* The Div is a Reciprocal of its second input.
IsReciprocal == DivAfter = [DivBefore EXCEPT !.type = "Reciprocal", !.inputs = <<@[2]>>]

\* The Div has its inputs and is no Reciprocal.
NoReciprocal ==
  DivAfter.type # "Reciprocal" /\ DivAfter.inputs = DivBefore.inputs

\* C16 as stated: a Div whose first input is the float single-element
\* constant 1.0 becomes a Reciprocal op with x, the second input, as its
\* only input; a Div with any other first input is no Reciprocal afterwards
\* and has its inputs.
DivOfOneIsReciprocal ==
  DivHandled => IF FirstIsOne THEN IsReciprocal ELSE NoReciprocal

\* C16 as the code has it: the Div whose first input is the constant 1.0
\* becomes a Reciprocal of x unless x is a float single-element constant
\* that only the Div reads, in which case the Div becomes a Mul with its
\* two inputs.
DivOfOneUnlessConstant ==
  DivHandled => IF FirstIsOne /\ ~SecondIsOwnConstant THEN IsReciprocal
                ELSE /\ NoReciprocal
                     /\ SecondIsOwnConstant => DivAfter.type = "Mul"

\* C16 witness: Div(1, x) with x a tensor has become Reciprocal(x).
ReciprocalOfTensor ==
  /\ DivHandled
  /\ FirstIsOne
  /\ Elements(last.pre.vars[DivBefore.inputs[2]]) > 1
  /\ IsReciprocal

\* Op computes the Rsqrt of flow variable x: it is an Rsqrt op, or a
\* Calculate op whose recipe is @0=Rsqrt(%0), with x as its one input.
ComputesRsqrt(op, x) ==
  /\ op.inputs = <<x>>
  /\ \/ op.type = "Rsqrt"
     \/ /\ op.type = "Calculate"
        /\ op.expr = << [type |-> "RSQRT", result |-> EVar("OUTPUT", 0),
                         args |-> <<EVar("INPUT", 0)>>] >>

\* No op of the flow is a Div, a Reciprocal or a Sqrt, or has one in its
\* recipe.
NoDivNoSqrt(f) ==
  \A k \in 1..Len(f.ops) :
     /\ f.ops[k].type \notin {"Div", "RealDiv", "Reciprocal", "Sqrt"}
     /\ \A j \in 1..Len(f.ops[k].expr) :
          f.ops[k].expr[j].type \notin {"DIV", "RECIPROCAL", "SQRT"}

\* C17: Div to Rsqrt through the pipeline.  For y = Div(1, Sqrt(x)), the
\* square root read by the Div only and no flow output, the flow at the
\* fixpoint of the pipeline has one op, which computes the Rsqrt of x, and
\* has no Div, Reciprocal or Sqrt as an op or in a recipe.
RsqrtAtFixpoint ==
  (pc = "done" /\ flow0 \in Given(RsqrtFlows))
    => /\ Len(flow.ops) = 1
       /\ ComputesRsqrt(flow.ops[1], 1)
       /\ NoDivNoSqrt(flow)

\* The flow is a chain of element-wise candidate ops: two or more calculate
\* ops that are not strict and no reductions, each with one output, the
\* output of each read by the next op only and no flow output, the other
\* inputs produced by no op, and all variables of one type and shape.
IsChain(f) ==
  /\ Len(f.ops) >= 2
  /\ \A k \in 1..Len(f.ops) :
       /\ IsCalculateOp(f.ops[k])
       /\ f.ops[k].type # "Calculate"
       /\ ~Reduction(OpType(f.ops[k].type))
       /\ ~f.ops[k].strict
       /\ Len(f.ops[k].outputs) = 1
       /\ \A j \in 1..Len(f.ops[k].inputs) :
            \/ Producer(f, f.ops[k].inputs[j]) = 0
            \/ k > 1 /\ f.ops[k].inputs[j] = f.ops[k - 1].outputs[1]
       /\ k < Len(f.ops) => Sole(f, f.ops[k].outputs[1], f.ops[k + 1].id)
  /\ \A v, w \in DOMAIN f.vars :
       f.vars[v].type = f.vars[w].type /\ f.vars[v].shape = f.vars[w].shape

\* The inputs of the ops of the flow that no op produces.
External(f) ==
  {v \in UNION {Range(f.ops[k].inputs) : k \in 1..Len(f.ops)} : Producer(f, v) = 0}

\* ExpressionTransformer::Transform has returned.
ExpressionDone == last.kind = "loop" /\ last.loop = "E3"

\* The flow is one Calculate op over the external inputs of the flow it
\* started as, and its output has the value the last op of that flow gave it.
FusedToOne ==
  LET result == flow0.ops[Len(flow0.ops)].outputs[1]
  IN /\ Len(flow.ops) = 1
     /\ flow.ops[1].type = "Calculate"
     /\ Range(flow.ops[1].inputs) = External(flow0)
     /\ Len(flow.ops[1].inputs) = Cardinality(External(flow0))
     /\ flow.ops[1].outputs = <<result>>
     /\ ValueOf(flow, result) = ValueOf(flow0, result)

\* C18: chain fusion.  A chain of element-wise candidate ops of one type and
\* shape, every intermediate result read by one op only and no flow output,
\* is fused by ExpressionTransformer into one Calculate op, whose inputs are
\* the external inputs of the chain and whose recipe is the composition of
\* the ops of the chain over those inputs.
ChainFused == (ExpressionDone /\ IsChain(flow0)) => FusedToOne

\* A term without its moves (Id).
RECURSIVE Strip(_)
Strip(t) ==
  IF t.op = "MOV" /\ Len(t.args) = 1 THEN Strip(t.args[1])
  ELSE [t EXCEPT !.args = List([j \in 1..Len(t.args) |-> Strip(t.args[j])])]

\* The variables op o writes: its outputs, and for an Assign its target.
Written(f, o) ==
  IF IsAssignmentOp(GetOp(f, o)) THEN <<GetOp(f, o).inputs[1]>> ELSE GetOp(f, o).outputs

\* The variables written by the ops a and b that are flow outputs or are read
\* by a third op.
Visible(f, a, b) ==
  {v \in Range(Written(f, a)) \cup Range(Written(f, b)) :
     f.vars[v].out \/ Range(Consumers(f, v)) \ {a, b} # {}}

\* The value the recipe of op o gives the variable v it writes, as a term
\* over the variables no op produces.
Gives(f, o, v) ==
  Strip(Term(f, GetOp(f, o), AsRecipe(InitExpression(f, GetOp(f, o))),
             EVar("OUTPUT", IndexOf(Written(f, o), v) - 1),
             2 * Cardinality(DOMAIN f.vars) + 2))

\* C19: fusion preserves semantics.  After a successful Combine(first,
\* second) every variable written by one of the two ops that is a flow output
\* or an input of a third op is written by the fused op, and the fused
\* recipe gives it the value that first and second, evaluated in dependency
\* order, gave it.
SemanticsKept ==
  (last.kind = "combine" /\ last.ok)
    => \A v \in Visible(last.pre, last.first, last.second) :
         LET writer == IF v \in Range(Written(last.pre, last.second))
                       THEN last.second ELSE last.first
         IN /\ last.first \in OpIds(flow)
            /\ v \in Range(Written(flow, last.first))
            /\ Gives(flow, last.first, v) = Gives(last.pre, writer, v)

\* The check of Combine that makes the call last return false.
RejectedBy ==
  LET f == last.pre
      first == GetOp(f, last.first)
      second == GetOp(f, last.second)
  IN IF first.nomerge \/ second.nomerge THEN "nomerge"
     ELSE IF ~ShapesOk(f, first, second) THEN "shape"
     ELSE IF IndirectDependency(f, first, second) THEN "dependency"
     ELSE "recipe"

\* C24: a rejected fusion has no effect.  Whenever Combine returns false,
\* for the nomerge, degree, type, shape or dependency check or for an empty
\* recipe of FuseExpressions, the flow (operations, variables, edges and
\* attributes) is as it was before the call.
RejectedKeepsFlow == (last.kind = "combine" /\ ~last.ok) => flow = last.pre

RejectedForRecipe ==
  /\ last.kind = "combine"
  /\ ~last.ok
  /\ RejectedBy = "recipe"
  /\ flow = last.pre

\* The references to inputs of a recipe: operation k, argument j.
InputArgs(recipe) ==
  {<<k, j>> \in (1..Len(recipe)) \X (1..3) :
     j <= Len(recipe[k].args) /\ recipe[k].args[j].type \in {"INPUT", "CONST"}}

\* C25: RemoveUnusedInputs keeps recipe and edges in step.  A call removes at
\* most one input of an op and never input 0 of an Assign; after the removal
\* of input i the recipe has the operations it had, every reference to an
\* input denotes the flow variable it denoted before, a reference to an old
\* input j > i being j - 1, and every input index of the recipe is below the
\* number of inputs the op has now.
UnusedInStep ==
  last.kind = "unused"
    => LET before == GetOp(last.pre, last.op)
           after  == GetOp(flow, last.op)
           old    == AsRecipe(InitExpression(last.pre, before))
           new    == after.expr
           i      == Len(before.inputs) - Len(after.inputs)
       IN IF ~last.hit THEN flow = last.pre
          ELSE /\ Len(after.inputs) = Len(before.inputs) - 1
               /\ IsAssignmentOp(before) => after.inputs[1] = before.inputs[1]
               /\ Len(new) = Len(old)
               /\ InputArgs(new) = InputArgs(old)
               /\ \A q \in InputArgs(old) :
                    LET ref == old[q[1]].args[q[2]]
                        now == new[q[1]].args[q[2]]
                    IN /\ now.id < Len(after.inputs)
                       /\ Denotes(after, now) = Denotes(before, ref)
                       /\ now.type = ref.type
                       /\ now.id \in {ref.id, ref.id - 1}

\* The input and output tensors of a call of AllowInPlace by a step.
CallInput(step, c) == step.inputs[c.input + 1]
CallOutput(step, c) == step.outputs[c.output + 1]

\* The accepted calls of the step just adjusted that name output tensor v.
AcceptedFor(step, v) ==
  {k \in 1..Len(last.calls) : last.calls[k].ok /\ CallOutput(step, last.calls[k]) = v}

SharedPairs ==
  {p \in (DOMAIN flow.vars) \X (DOMAIN flow.vars) : SharedWith(cur.shared, p[1], p[2])}

\* The steps of the compiled order that read one tensor of the pair and
\* write the other.
InPlaceSteps(a, b) ==
  {n \in 1..Len(StepOrder(flow)) :
     LET step == GetOp(flow, StepOrder(flow)[n])
     IN \/ IsInput(step, a) /\ IsOutput(step, b)
        \/ IsInput(step, b) /\ IsOutput(step, a)}

\* C21 as stated: when every step is adjusted, two tensors that share
\* storage, among them an input and an output of a step shared through
\* AllowInPlace, have live ranges with no step in common.
SharedDisjoint ==
  pc = "compiled" =>
    \A p \in SharedPairs : LiveRange(flow, p[1]) \cap LiveRange(flow, p[2]) = {}

\* C21: when every step is adjusted, the live ranges of two tensors that
\* share storage have no step in common other than the step that reads the
\* one and writes the other in place: the range of the input ends at the
\* step at which the range of the output begins.
SharedMeetInPlace ==
  pc = "compiled" =>
    \A p \in SharedPairs :
       LiveRange(flow, p[1]) \cap LiveRange(flow, p[2]) \subseteq InPlaceSteps(p[1], p[2])

\* A compiled cell in which an output shares the storage of an input of
\* its step and is read by a later step.
SharedAndReadLater ==
  /\ pc = "compiled"
  /\ \E p \in SharedPairs :
       /\ cur.shared[p[2]] = p[1]
       /\ InPlaceSteps(p[1], p[2]) # {}
       /\ Cardinality(LiveRange(flow, p[2])) > 1

\* The first record of the file at or after offset pos that is no filler.
FirstRecordFrom(file, pos) ==
  MinOf({k \in 1..Len(file) : StartOf(file, k) >= pos /\ file[k].type # "FILLER"})

\* C26: after Read, Skip and Seek calls that returned OK, position_ is the
\* file offset of the first unconsumed byte of the input buffer; and the
\* Read that follows a Seek(pos) naming another position than the current
\* one returns the record that starts at file offset pos, Seek(0) standing
\* for the first record after the file header.
ReaderPosition ==
  recReader.status = "OK" =>
    /\ recReader.position = recReader.fpos - recReader.avail
    /\ (recReader.op = "Read" /\ recReader.after # 0) =>
          recReader.record.index = FirstRecordFrom(recReader.file, recReader.after)

\* The chunk that holds byte b of the file.
ChunkOf(b) == b \div recWriter.chunk

\* The space left in the current chunk.
ChunkRest == recWriter.chunk - (recWriter.position % recWriter.chunk)

\* C27: with a chunk size other than 0, no record written, filler or not,
\* has bytes in two chunks; when the record of the last Write did not fit
\* in the rest of the chunk, the Write wrote a filler whose record size is
\* exactly that rest and the record starts at a multiple of the chunk size;
\* and after a record the rest of the chunk has room for the header of a
\* filler record.
WriterChunks ==
  (recWriter.chunk # 0 /\ recWriter.file # <<>>) =>
    LET n    == Len(recWriter.file)
        rec  == recWriter.file[n]
        rest == recWriter.chunk - recWriter.fit.used
    IN /\ \A k \in 1..n :
            ChunkOf(recWriter.file[k].start)
              = ChunkOf(recWriter.file[k].start + recWriter.file[k].bytes - 1)
       /\ rec.bytes > rest =>
            /\ recWriter.fit.fillers = 1
            /\ recWriter.file[n - 1].type = "FILLER"
            /\ recWriter.file[n - 1].size = rest
            /\ rec.start = recWriter.file[n - 1].start + rest
            /\ rec.start % recWriter.chunk = 0
       /\ ChunkRest >= HeaderSize(FillerRecord(ChunkRest))

\* C29: for a page sorted by fingerprint, of any size, and a fingerprint
\* fp, Find(fp) returns an index i with 0 <= i < max(size, 1) such that
\* every entry below i has a fingerprint less than fp, and the scan of
\* Lookup from i visits every entry whose fingerprint is fp.
FindMissesNoMatch ==
  LET size == Len(finder.entries)
  IN /\ finder.pc \in {"found", "scanned"} =>
          /\ 0 <= finder.found
          /\ finder.found < (IF size > 1 THEN size ELSE 1)
          /\ \A j \in 0..(finder.found - 1) : finder.entries[j + 1] < finder.fp
     /\ finder.pc = "scanned" =>
          \A j \in 0..(size - 1) : finder.entries[j + 1] = finder.fp => j \in finder.visited

\* A page with the fingerprint at two entries that are not the first, and
\* the scan done.
FoundDuplicates ==
  /\ finder.pc = "scanned"
  /\ finder.found > 0
  /\ Cardinality({j \in 1..Len(finder.entries) : finder.entries[j] = finder.fp}) = 2

\* C28: after any sequence of lookups the cache of RecordIndex holds at most
\* cache_size_ (>= 2) pages and at most one page per file position, a page
\* is deleted only from a full cache and is then the one with the smallest
\* lru stamp, and the directory page Lookup iterates over is never deleted
\* by the fetch of one of its leaf pages.
IndexCacheSafe ==
  LET cache == recIndex.cache
      gone == {i \in DOMAIN recIndex.before : recIndex.before[i].id = recIndex.evicted}
  IN /\ recIndex.cache_size >= 2
     /\ Len(cache) <= recIndex.cache_size
     /\ \A i, j \in DOMAIN cache : cache[i].position = cache[j].position => i = j
     /\ recIndex.evicted # 0 =>
          /\ Len(recIndex.before) = recIndex.cache_size
          /\ \E i \in gone : \A j \in DOMAIN recIndex.before :
               recIndex.before[i].lru <= recIndex.before[j].lru
     /\ recIndex.pc = "dir" =>
          /\ recIndex.dir \notin recIndex.freed
          /\ \E i \in DOMAIN cache : cache[i].id = recIndex.dir

\* The fetch of a leaf page has deleted a page of a full cache of two pages
\* while Lookup iterates over a directory page.
LeafFetchEvicts ==
  /\ recIndex.kind = "leaf"
  /\ recIndex.evicted # 0
  /\ recIndex.cache_size = 2
  /\ recIndex.pc = "dir"

\* A step leaves every slot that holds a sticky phrase as it is.
StickyKept ==
  \A s \in 1..PhraseCacheSize :
    phrases.cache[s].sticky => phrases'.cache[s] = phrases.cache[s]

\* A LookupPhrase that returned true saw the id and the text it asked for
\* and returns the annotations of the call that wrote them.
LookupConsistent ==
  \A t \in Threads :
    (threads[t].op = "lookup" /\ threads[t].found) =>
      /\ threads[t].seen.id = threads[t].id
      /\ threads[t].seen.text = threads[t].text
      /\ threads[t].seen.idBy = threads[t].got
      /\ threads[t].seen.textBy = threads[t].got

\* C30: once a cache slot holds a sticky phrase no later CachePhrase call,
\* sticky or not and from any thread, changes its id, text or annotations;
\* LookupPhrase returns true only if the id and the text of the slot equal
\* the ones asked for, and the annotations it returns were written by the
\* same CachePhrase call as that id and text.
PhraseCacheSafe == [](LookupConsistent) /\ [][StickyKept]_vars

\* A lookup has found a phrase while the other thread is inside CachePhrase
\* for the same slot, waiting for the lock or past it, and a sticky phrase
\* has made a CachePhrase call return false.
LookupBesideCache ==
  \E t, u \in Threads :
    /\ threads[t].op = "lookup" /\ threads[t].found /\ threads[t].got > 0
    /\ threads[u].op = "cache" /\ threads[u].pc # "idle"
    /\ Slot(threads[u].id, threads[u].text) = Slot(threads[t].id, threads[t].text)
    /\ \E s \in 1..PhraseCacheSize : phrases.cache[s].sticky

\* The bytes from a, of length n, and the bytes from b, of length m, meet.
BytesMeet(a, n, b, m) == a < b + m /\ b < a + n

\* C22: after planning, every tensor with HOST placement that is no
\* reference, not shared and not constant has 0 <= offset,
\* offset + size <= instance_size and offset % alignment = 0, and its bytes
\* meet neither the runtime prefix at offset 0 nor a task structure.
PlannedInBounds ==
  cell.pc = "planned" =>
    \A i \in DOMAIN cell.tensors :
      LET t == cell.tensors[i]
      IN (OnHost(t) /\ ~t.ref /\ t.shared = 0 /\ ~t.constant) =>
           /\ 0 <= t.offset
           /\ t.offset + t.size <= cell.instance_size
           /\ t.offset % t.byte_alignment = 0
           /\ ~BytesMeet(t.offset, t.size, 0, cell.prefix)
           /\ \A k \in DOMAIN cell.tasks : ~BytesMeet(t.offset, t.size, cell.tasks[k], TaskSize)

\* A planned cell with a runtime prefix, a task structure and a tensor
\* placed behind a gap that its alignment made.
PlannedWithGap ==
  /\ cell.pc = "planned"
  /\ cell.prefix > 0
  /\ cell.ntasks > 0
  /\ \E i \in DOMAIN cell.tensors :
       /\ cell.tensors[i].byte_alignment = 32 /\ cell.tensors[i].offset > 0
       /\ \A k \in DOMAIN cell.tasks : cell.tasks[k] + TaskSize # cell.tensors[i].offset
       /\ \A j \in DOMAIN cell.tensors :
            cell.tensors[j].offset + Space(cell.tensors[j]) # cell.tensors[i].offset
====
